---- MODULE Spec2Model ----
(***************************************************************************)
(* A model of the schema-profiling, row-classification and strategy-       *)
(* routing engine of the gov-data pipeline (second_iteration/src).         *)
(*                                                                         *)
(* Representation.  A Python str is a sequence of character codes, so that *)
(* lower(), strip(), substring tests and the regular expressions are       *)
(* computed character by character.  A cell value is a record              *)
(* [t, s, n]: t is the Python type ("none", "nan", "str", "int", "float",  *)
(* "bool", "list"), s the text of a str, n the number of an int, float or  *)
(* bool.  A dict is a sequence of [k, v] pairs in insertion order.         *)
(***************************************************************************)
EXTENDS Integers, Sequences, FiniteSets, TLC

(* ------------------------------ strings ------------------------------ *)
s_lat == <<108, 97, 116>>  \* "lat"
s_lon == <<108, 111, 110>>  \* "lon"
s_latitude == <<108, 97, 116, 105, 116, 117, 100, 101>>  \* "latitude"
s_longitude == <<108, 111, 110, 103, 105, 116, 117, 100, 101>>  \* "longitude"
s_geometry == <<103, 101, 111, 109, 101, 116, 114, 121>>  \* "geometry"
s_geom == <<103, 101, 111, 109>>  \* "geom"
s_geo == <<103, 101, 111>>  \* "geo"
s_address == <<97, 100, 100, 114, 101, 115, 115>>  \* "address"
s_address_building == <<97, 100, 100, 114, 101, 115, 115, 95, 98, 117, 105, 108, 100, 105, 110, 103>>  \* "address_building"
s_address_street_name == <<97, 100, 100, 114, 101, 115, 115, 95, 115, 116, 114, 101, 101, 116, 95, 110, 97, 109, 101>>  \* "address_street_name"
s_secondary_address_street_name == <<115, 101, 99, 111, 110, 100, 97, 114, 121, 95, 97, 100, 100, 114, 101, 115, 115, 95, 115, 116, 114, 101, 101, 116, 95, 110, 97, 109, 101>>  \* "secondary_address_street_name"
s_zip_code == <<122, 105, 112, 95, 99, 111, 100, 101>>  \* "zip_code"
s_address_city == <<97, 100, 100, 114, 101, 115, 115, 95, 99, 105, 116, 121>>  \* "address_city"
s_address_state == <<97, 100, 100, 114, 101, 115, 115, 95, 115, 116, 97, 116, 101>>  \* "address_state"
s_borough == <<98, 111, 114, 111, 117, 103, 104>>  \* "borough"
s_borough_code == <<98, 111, 114, 111, 117, 103, 104, 95, 99, 111, 100, 101>>  \* "borough_code"
s_state_code == <<115, 116, 97, 116, 101, 95, 99, 111, 100, 101>>  \* "state_code"
s_revenue == <<114, 101, 118, 101, 110, 117, 101>>  \* "revenue"
s_amount == <<97, 109, 111, 117, 110, 116>>  \* "amount"
s_fine == <<102, 105, 110, 101>>  \* "fine"
s_fee == <<102, 101, 101>>  \* "fee"
s_payment == <<112, 97, 121, 109, 101, 110, 116>>  \* "payment"
s_tax == <<116, 97, 120>>  \* "tax"
s_cost == <<99, 111, 115, 116>>  \* "cost"
s_price == <<112, 114, 105, 99, 101>>  \* "price"
s_balance == <<98, 97, 108, 97, 110, 99, 101>>  \* "balance"
s_population == <<112, 111, 112, 117, 108, 97, 116, 105, 111, 110>>  \* "population"
s_median_age == <<109, 101, 100, 105, 97, 110, 95, 97, 103, 101>>  \* "median_age"
s_median_income == <<109, 101, 100, 105, 97, 110, 95, 105, 110, 99, 111, 109, 101>>  \* "median_income"
s_households == <<104, 111, 117, 115, 101, 104, 111, 108, 100, 115>>  \* "households"
s_demographic == <<100, 101, 109, 111, 103, 114, 97, 112, 104, 105, 99>>  \* "demographic"
s_gender == <<103, 101, 110, 100, 101, 114>>  \* "gender"
s_race == <<114, 97, 99, 101>>  \* "race"
s_dca_license_number == <<100, 99, 97, 95, 108, 105, 99, 101, 110, 115, 101, 95, 110, 117, 109, 98, 101, 114>>  \* "dca_license_number"
s_license_number == <<108, 105, 99, 101, 110, 115, 101, 95, 110, 117, 109, 98, 101, 114>>  \* "license_number"
s_provider_record_id == <<112, 114, 111, 118, 105, 100, 101, 114, 95, 114, 101, 99, 111, 114, 100, 95, 105, 100>>  \* "provider_record_id"
s_business_name == <<98, 117, 115, 105, 110, 101, 115, 115, 95, 110, 97, 109, 101>>  \* "business_name"
s_canonical_legal_entity_name == <<99, 97, 110, 111, 110, 105, 99, 97, 108, 95, 108, 101, 103, 97, 108, 95, 101, 110, 116, 105, 116, 121, 95, 110, 97, 109, 101>>  \* "canonical_legal_entity_name"
s_street_address == <<115, 116, 114, 101, 101, 116, 95, 97, 100, 100, 114, 101, 115, 115>>  \* "street_address"
s_city == <<99, 105, 116, 121>>  \* "city"
s_state == <<115, 116, 97, 116, 101>>  \* "state"
s_phone == <<112, 104, 111, 110, 101>>  \* "phone"
s_contact_phone_number == <<99, 111, 110, 116, 97, 99, 116, 95, 112, 104, 111, 110, 101, 95, 110, 117, 109, 98, 101, 114>>  \* "contact_phone_number"
s_phone_number == <<112, 104, 111, 110, 101, 95, 110, 117, 109, 98, 101, 114>>  \* "phone_number"
s_name == <<110, 97, 109, 101>>  \* "name"
s_iso_date == <<105, 115, 111, 95, 100, 97, 116, 101>>  \* "iso_date"
s_email == <<101, 109, 97, 105, 108>>  \* "email"
s_fine_amount == <<102, 105, 110, 101, 95, 97, 109, 111, 117, 110, 116>>  \* "fine_amount"
s_coffee == <<99, 111, 102, 102, 101, 101>>  \* "coffee"
s_unit_price == <<117, 110, 105, 116, 95, 112, 114, 105, 99, 101>>  \* "unit_price"
s_financial == <<102, 105, 110, 97, 110, 99, 105, 97, 108>>  \* "financial"
s_generic == <<103, 101, 110, 101, 114, 105, 99>>  \* "generic"
s_Latitude == <<76, 97, 116, 105, 116, 117, 100, 101>>  \* "Latitude"
s_GEO == <<71, 69, 79>>  \* "GEO"
s_Acme == <<65, 99, 109, 101>>  \* "Acme"
s_NY == <<78, 89>>  \* "NY"
s_has_valid_coordinates == <<104, 97, 115, 95, 118, 97, 108, 105, 100, 95, 99, 111, 111, 114, 100, 105, 110, 97, 116, 101, 115>>  \* "has_valid_coordinates"
s_centroid == <<99, 101, 110, 116, 114, 111, 105, 100>>  \* "centroid"
s__strategy == <<95, 115, 116, 114, 97, 116, 101, 103, 121>>  \* "_strategy"
s__notes == <<95, 110, 111, 116, 101, 115>>  \* "_notes"
s__record_hash == <<95, 114, 101, 99, 111, 114, 100, 95, 104, 97, 115, 104>>  \* "_record_hash"
s_full_address == <<102, 117, 108, 108, 95, 97, 100, 100, 114, 101, 115, 115>>  \* "full_address"
s_has_coordinates == <<104, 97, 115, 95, 99, 111, 111, 114, 100, 105, 110, 97, 116, 101, 115>>  \* "has_coordinates"
s_financial_total == <<102, 105, 110, 97, 110, 99, 105, 97, 108, 95, 116, 111, 116, 97, 108>>  \* "financial_total"
s_has_financial_red_flag == <<104, 97, 115, 95, 102, 105, 110, 97, 110, 99, 105, 97, 108, 95, 114, 101, 100, 95, 102, 108, 97, 103>>  \* "has_financial_red_flag"
s_population_density == <<112, 111, 112, 117, 108, 97, 116, 105, 111, 110, 95, 100, 101, 110, 115, 105, 116, 121>>  \* "population_density"
s_average_household_size == <<97, 118, 101, 114, 97, 103, 101, 95, 104, 111, 117, 115, 101, 104, 111, 108, 100, 95, 115, 105, 122, 101>>  \* "average_household_size"
s_area_sq_miles == <<97, 114, 101, 97, 95, 115, 113, 95, 109, 105, 108, 101, 115>>  \* "area_sq_miles"
s_area_sq_km == <<97, 114, 101, 97, 95, 115, 113, 95, 107, 109>>  \* "area_sq_km"
s_land_area == <<108, 97, 110, 100, 95, 97, 114, 101, 97>>  \* "land_area"
s_40_71 == <<52, 48, 46, 55, 49>>  \* "40.71"
s_minus_73_99 == <<45, 55, 51, 46, 57, 57>>  \* "-73.99"
s_5 == <<53>>  \* "5"
s_spaced_name == <<32, 32, 65, 99, 109, 101, 32, 32, 32, 67, 111, 114, 112, 32>>  \* "  Acme   Corp "
s_1_500_000 == <<49, 44, 53, 48, 48, 44, 48, 48, 48>>  \* "1,500,000"
s_1_000 == <<49, 44, 48, 48, 48>>  \* "1,000"
s_12 == <<49, 50>>  \* "12"
s_main_st == <<77, 97, 105, 110, 32, 32, 83, 116>>  \* "Main  St"
s_10001 == <<49, 48, 48, 48, 49>>  \* "10001"
s_payment_due == <<112, 97, 121, 109, 101, 110, 116, 95, 100, 117, 101>>  \* "payment_due"
s_notes == <<110, 111, 116, 101, 115>>  \* "notes"
s_100_50 == <<49, 48, 48, 46, 53, 48>>  \* "100.50"
s_n_a == <<110, 47, 97>>  \* "n/a"
s_dollar_1_000_000 == <<36, 49, 44, 48, 48, 48, 44, 48, 48, 48>>  \* "$1,000,000"
s_1000 == <<49, 48, 48, 48>>  \* "1000"
s_0 == <<48>>  \* "0"
s_empty == <<>>  \* ""

s_likely_identifier == <<108, 105, 107, 101, 108, 121, 95, 105, 100, 101, 110, 116, 105, 102, 105, 101, 114>>  \* "likely_identifier"
s_high_uniqueness == <<104, 105, 103, 104, 95, 117, 110, 105, 113, 117, 101, 110, 101, 115, 115>>  \* "high_uniqueness"
s_low_cardinality == <<108, 111, 119, 95, 99, 97, 114, 100, 105, 110, 97, 108, 105, 116, 121>>  \* "low_cardinality"
s_dominant_value == <<100, 111, 109, 105, 110, 97, 110, 116, 95, 118, 97, 108, 117, 101>>  \* "dominant_value"
s_sparse_values == <<115, 112, 97, 114, 115, 101, 95, 118, 97, 108, 117, 101, 115>>  \* "sparse_values"
s_id == <<105, 100>>  \* "id"
s_identifier == <<105, 100, 101, 110, 116, 105, 102, 105, 101, 114>>  \* "identifier"
s_order_id == <<111, 114, 100, 101, 114, 95, 105, 100>>  \* "order_id"
s_suffix_id == <<95, 105, 100>>  \* "_id"
s_separator == <<124, 124>>  \* "||"
s_NA == <<78, 65>>  \* "NA"
s_zip5 == <<49, 50, 51, 52, 53>>  \* "12345"
s_zip9 == <<49, 50, 51, 52, 53, 45, 54, 55, 56, 57>>  \* "12345-6789"
s_padded_zip == <<32, 49, 48, 48, 48, 49, 32>>  \* " 10001 "
s_bad == <<98, 97, 100>>  \* "bad"
s_date == <<50, 48, 50, 52, 45, 48, 49, 45, 51, 49>>  \* "2024-01-31"
s_mail == <<97, 64, 98, 46, 99, 111>>  \* "a@b.co"
s_tel == <<43, 49, 32, 40, 53, 53, 53, 41, 32, 49, 50, 46, 51, 52>>  \* "+1 (555) 12.34"
s_blank == <<32, 32>>  \* "  "
s_None == <<78, 111, 110, 101>>  \* "None"
s_True == <<84, 114, 117, 101>>  \* "True"
s_False == <<70, 97, 108, 115, 101>>  \* "False"
s_nan == <<110, 97, 110>>  \* "nan"
s_inf == <<105, 110, 102>>  \* "inf"
s_infinity == <<105, 110, 102, 105, 110, 105, 116, 121>>  \* "infinity"
s_list_repr == <<91, 93>>  \* "[]"
s_ID == <<73, 68>>  \* "ID"
s_Order_ID == <<79, 114, 100, 101, 114, 95, 73, 68>>  \* "Order_ID"
s_ratio_text == <<32, 48, 46, 57, 55, 32>>  \* " 0.97 "

(* ------------------------------- state ------------------------------- *)
VARIABLES
    call,      \* the pending call of a pure component: [fn, arg]
    result,    \* what that call returned: [done, value]
    clf,       \* the RowDropClassifier instance the caller holds
    disk,      \* the file save() wrote: <<>> or <<the JSON document>>
    ret        \* the classifier call that has just returned to the caller:
               \* [op, arg, auto_fit, value, raised]

\* no pure call has returned yet
Pending == [done |-> FALSE, value |-> <<>>]

vars == <<call, result, clf, disk, ret>>
clfvars == <<clf, disk, ret>>

(* --------------------------- str operations -------------------------- *)
\* the elements of a list
Range(seq) == {seq[i] : i \in 1..Len(seq)}

\* str.lower(): A-Z (65..90) become a-z, every other character is kept
Lower(s) == [i \in 1..Len(s) |-> IF s[i] >= 65 /\ s[i] <= 90 THEN s[i] + 32 ELSE s[i]]

\* the Python test `token in name` on two strs
Contains(name, token) ==
    \E i \in 1..(Len(name) - Len(token) + 1) :
        SubSeq(name, i, i + Len(token) - 1) = token

\* the whitespace characters str.strip() removes: \t \n \v \f \r and the space
Whitespace == {9, 10, 11, 12, 13, 32}

RECURSIVE LStrip(_)
LStrip(s) == IF s # <<>> /\ Head(s) \in Whitespace THEN LStrip(Tail(s)) ELSE s

RECURSIVE RStrip(_)
RStrip(s) ==
    IF s # <<>> /\ s[Len(s)] \in Whitespace THEN RStrip(SubSeq(s, 1, Len(s) - 1)) ELSE s

\* str.strip()
Strip(s) == RStrip(LStrip(s))

(* ------------------------------- values ------------------------------ *)
NoneV == [t |-> "none", s |-> <<>>, n |-> 0]
NaNV == [t |-> "nan", s |-> <<>>, n |-> 0]      \* float('nan')
StrV(text) == [t |-> "str", s |-> text, n |-> 0]
IntV(number) == [t |-> "int", s |-> <<>>, n |-> number]
BoolV(number) == [t |-> "bool", s |-> <<>>, n |-> number]   \* True is 1, False is 0
FloatV(number) == [t |-> "float", s |-> <<>>, n |-> number]  \* the float number.0
ListV == [t |-> "list", s |-> <<>>, n |-> 0]    \* a nested list, []
HundredthsV(number) == [t |-> "hundredths", s |-> <<>>, n |-> number]  \* the float literal number/100
BigIntV == [t |-> "bigint", s |-> <<>>, n |-> 0]   \* an int beyond the range of float, 10**400

\* dict.get(key): None when the key is absent
dict_get(row, key) ==
    IF \E i \in 1..Len(row) : row[i].k = key
    THEN LET i == CHOOSE j \in 1..Len(row) : row[j].k = key IN row[i].v
    ELSE NoneV

(* --------------------------- fixed-point reals ----------------------- *)
\* A float is held as an integer number of 1/Unit; a ratio a/b is a*Unit \div b.
Unit == 100 * 100

RECURSIVE SqrtSearch(_, _, _)
SqrtSearch(x, lo, hi) ==
    IF lo >= hi THEN lo
    ELSE LET mid == (lo + hi + 1) \div 2
         IN  IF mid * mid <= x THEN SqrtSearch(x, mid, hi) ELSE SqrtSearch(x, lo, mid - 1)

\* math.sqrt on a value held in 1/Unit^2, result in 1/Unit
Sqrt(x) == SqrtSearch(x, 0, 4 * Unit)

RECURSIVE SumSeq(_)
SumSeq(xs) == IF xs = <<>> THEN 0 ELSE Head(xs) + SumSeq(Tail(xs))

\* Body(value), with value computed once
With(value, Body(_)) == CHOOSE y \in {Body(x) : x \in {value}} : TRUE

(* -------------------------------- floats ----------------------------- *)
\* Where a result is compared for equality, a Python float (IEEE 754 binary64,
\* round to nearest, ties to even) is held as [m, e]: m its 53 significant bits,
\* leading bit first, and e the exponent of the leading bit.  0.0 has no bits.
\* Only non-negative floats occur.
MantissaBits == 52 + 1

FloatZero == [m |-> <<>>, e |-> 0]

Zeros(n) == [i \in 1..n |-> 0]

\* the binary digits of a natural number, leading bit first
RECURSIVE BitsOf(_)
BitsOf(n) == IF n = 0 THEN <<>> ELSE BitsOf(n \div 2) \o <<n % 2>>

\* bits + 1
Increment(bits) ==
    LET zeros == {i \in 1..Len(bits) : bits[i] = 0}
    IN  IF zeros = {} THEN <<1>> \o Zeros(Len(bits))
        ELSE LET last == CHOOSE i \in zeros : \A j \in zeros : j <= i
             IN  SubSeq(bits, 1, last - 1) \o <<1>> \o Zeros(Len(bits) - last)

\* the float nearest to the natural number `bits` (leading bit 1) times 2^lsb
RoundToFloat(bits, lsb) ==
    IF bits = <<>> THEN FloatZero
    ELSE IF Len(bits) <= MantissaBits
    THEN [m |-> bits \o Zeros(MantissaBits - Len(bits)), e |-> lsb + Len(bits) - 1]
    ELSE LET top == SubSeq(bits, 1, MantissaBits)
             rest == SubSeq(bits, MantissaBits + 1, Len(bits))
             half == <<1>> \o Zeros(Len(rest) - 1)
             up == (rest[1] = 1 /\ rest # half) \/ (rest = half /\ top[MantissaBits] = 1)
             rounded == IF up THEN Increment(top) ELSE top
             e == lsb + Len(bits) - 1
         IN  IF Len(rounded) > MantissaBits
             THEN [m |-> SubSeq(rounded, 1, MantissaBits), e |-> e + 1]
             ELSE [m |-> rounded, e |-> e]

\* k further quotient bits of r/d (r < d), then one bit telling whether a
\* remainder is left
RECURSIVE DivBits(_, _, _)
DivBits(r, d, k) ==
    IF k = 0 THEN <<IF r = 0 THEN 0 ELSE 1>>
    ELSE IF 2 * r >= d THEN <<1>> \o DivBits(2 * r - d, d, k - 1)
    ELSE <<0>> \o DivBits(2 * r, d, k - 1)

\* the least a with c * 2^a >= t, and the greatest b with t * 2^b <= c
RECURSIVE ScaleUp(_, _)
ScaleUp(c, t) == IF c >= t THEN 0 ELSE 1 + ScaleUp(2 * c, t)
RECURSIVE ScaleDown(_, _)
ScaleDown(c, t) == IF 2 * t > c THEN 0 ELSE 1 + ScaleDown(c, 2 * t)
RECURSIVE Pow2(_)
Pow2(n) == IF n = 0 THEN 1 ELSE 2 * Pow2(n - 1)

\* the Python quotient c / t of two small naturals, t > 0
FloatDiv(c, t) ==
    IF c = 0 THEN FloatZero
    ELSE LET a == ScaleUp(c, t)
             n == c * Pow2(a)
             b == ScaleDown(n, t)
             d == t * Pow2(b)
             bits == <<1>> \o DivBits(n - d, d, MantissaBits + 1)
         IN  RoundToFloat(bits, (b - a) - (Len(bits) - 1))

\* float(n) for a small natural n
FloatOfInt(n) == FloatDiv(n, 1)

\* bits * k for a small natural k
MulSmall(bits, k) ==
    LET n == Len(bits)
        \* the carry out of the i lowest bits
        carry[i \in 0..n] == IF i = 0 THEN 0 ELSE (bits[n - i + 1] * k + carry[i - 1]) \div 2
    IN  BitsOf(carry[n]) \o [j \in 1..n |-> (bits[j] * k + carry[n - j]) % 2]

\* the Python product x * float(k)
FloatTimesInt(x, k) ==
    IF x = FloatZero \/ k = 0 THEN FloatZero
    ELSE RoundToFloat(MulSmall(x.m, k), x.e - (MantissaBits - 1))

\* a + b on two bit strings of the same length
AddBits(a, b) ==
    LET n == Len(a)
        carry[i \in 0..n] ==
            IF i = 0 THEN 0 ELSE (a[n - i + 1] + b[n - i + 1] + carry[i - 1]) \div 2
    IN  BitsOf(carry[n]) \o [j \in 1..n |-> (a[j] + b[j] + carry[n - j]) % 2]

\* the Python sum x + y
FloatAdd(x, y) ==
    IF x = FloatZero THEN y
    ELSE IF y = FloatZero THEN x
    ELSE IF x.e - y.e > MantissaBits + 2 THEN x
    ELSE IF y.e - x.e > MantissaBits + 2 THEN y
    ELSE LET lx == x.e - (MantissaBits - 1)
             ly == y.e - (MantissaBits - 1)
             lsb == IF lx < ly THEN lx ELSE ly
             xs == x.m \o Zeros(lx - lsb)
             ys == y.m \o Zeros(ly - lsb)
             width == IF Len(xs) > Len(ys) THEN Len(xs) ELSE Len(ys)
         IN  RoundToFloat(AddBits(Zeros(width - Len(xs)) \o xs,
                                  Zeros(width - Len(ys)) \o ys), lsb)

\* x < y
FloatLess(x, y) ==
    With(<<x, y>>, LAMBDA p :
        IF p[2] = FloatZero THEN FALSE
        ELSE IF p[1] = FloatZero THEN TRUE
        ELSE IF p[1].e # p[2].e THEN p[1].e < p[2].e
        ELSE \E i \in 1..MantissaBits :
                /\ p[1].m[i] < p[2].m[i]
                /\ \A j \in 1..(i - 1) : p[1].m[j] = p[2].m[j])

\* a < b on two bit strings of the same length
LessBits(a, b) ==
    \E i \in 1..Len(a) : a[i] < b[i] /\ \A j \in 1..(i - 1) : a[j] = b[j]

\* a - b on two bit strings of the same length, a >= b: a bit borrows from
\* the next one when the bits below it hold less in a than in b
SubBits(a, b) ==
    LET n == Len(a)
        borrow(j) == IF LessBits(SubSeq(a, j + 1, n), SubSeq(b, j + 1, n)) THEN 1 ELSE 0
    IN  [j \in 1..n |-> (2 + a[j] - b[j] - borrow(j)) % 2]

\* a bit string without its leading zeros
RECURSIVE StripZeros(_)
StripZeros(bits) == IF bits # <<>> /\ bits[1] = 0 THEN StripZeros(Tail(bits)) ELSE bits

\* the Python difference x - y of two floats, x > y >= 0
FloatSub(x, y) ==
    IF y = FloatZero \/ x.e - y.e > MantissaBits + 2 THEN x
    ELSE With([lx |-> x.e - (MantissaBits - 1), ly |-> y.e - (MantissaBits - 1)], LAMBDA p :
         With(IF p.lx < p.ly THEN p.lx ELSE p.ly, LAMBDA lsb :
         With([xs |-> x.m \o Zeros(p.lx - lsb), ys |-> y.m \o Zeros(p.ly - lsb)], LAMBDA q :
             RoundToFloat(StripZeros(SubBits(q.xs, Zeros(Len(q.xs) - Len(q.ys)) \o q.ys)),
                          lsb))))

\* one step of the long division by d: the remainder r and the quotient bits q
DivideStep(p, d) ==
    With(Tail(p.r) \o <<0>>, LAMBDA doubled :
        IF LessBits(doubled, d) THEN [r |-> doubled, q |-> Append(p.q, 0)]
        ELSE [r |-> SubBits(doubled, d), q |-> Append(p.q, 1)])

\* k steps of the long division
RECURSIVE DivideSteps(_, _, _)
DivideSteps(p, d, k) ==
    IF k = 0 THEN p
    ELSE With(DivideStep(p, d), LAMBDA next : DivideSteps(next, d, k - 1))

\* the quotient bits of first / d, first >= d: the leading 1, MantissaBits + 1
\* further bits, and one bit telling whether a remainder is left
QuotientBits(first, d) ==
    With((MantissaBits + 1) \div 4, LAMBDA quarter :
    With(DivideSteps([r |-> SubBits(first, d), q |-> <<1>>], d, quarter), LAMBDA a :
    With(DivideSteps(a, d, quarter), LAMBDA b :
    With(DivideSteps(b, d, quarter), LAMBDA c :
    With(DivideSteps(c, d, MantissaBits + 1 - 3 * quarter), LAMBDA last :
        Append(last.q, IF last.r = Zeros(Len(last.r)) THEN 0 ELSE 1))))))

\* the Python quotient x / y of two floats, x > 0 and y > 0
FloatQuotient(x, y) ==
    IF LessBits(x.m, y.m)
    THEN RoundToFloat(QuotientBits(<<0>> \o x.m \o <<0>>, <<0, 0>> \o y.m),
                      x.e - y.e - 1 - (MantissaBits + 2))
    ELSE RoundToFloat(QuotientBits(<<0, 0>> \o x.m, <<0, 0>> \o y.m),
                      x.e - y.e - (MantissaBits + 2))

(* ---------------------------- StrategyRouter ------------------------- *)
\* dict.get(key, []) or [] on a column's metadata
meta_get(meta, key) == IF key \in DOMAIN meta THEN meta[key] ELSE <<>>

\* (dataset_profile or {}).get("columns", {})
profile_columns(dataset_profile) ==
    IF "columns" \in DOMAIN dataset_profile THEN dataset_profile.columns ELSE <<>>

collect_values(columns, key) ==
    UNION { {Lower(value) : value \in Range(meta_get(columns[i].meta, key))} :
            i \in 1..Len(columns) }

geo_columns == {s_lat, s_lon, s_latitude, s_longitude, s_geometry, s_geom}

looks_geo(column_names, tags) ==
    (geo_columns \cap column_names) # {} \/ ({s_geo} \cap tags) # {}

address_tokens ==
    {s_address, s_address_building, s_address_street_name,
     s_secondary_address_street_name, s_zip_code, s_address_city,
     s_address_state, s_borough, s_borough_code}

looks_address(column_names, tags) ==
    (address_tokens \cap column_names) # {} \/ ({s_zip_code, s_state_code} \cap tags) # {}

financial_tokens == {s_revenue, s_amount, s_fine, s_fee, s_payment, s_tax, s_cost}

looks_financial(column_names) ==
    \E name \in column_names : \E token \in financial_tokens : Contains(name, token)

demographic_tokens ==
    {s_population, s_median_age, s_median_income, s_households, s_demographic,
     s_gender, s_race}

looks_demographic(column_names) == (demographic_tokens \cap column_names) # {}

\* StrategyRouter.route with the address test moved in front of the geo test
route_address_first(dataset_profile) ==
    LET columns == profile_columns(dataset_profile)
        column_names == {Lower(columns[i].name) : i \in 1..Len(columns)}
        tags == collect_values(columns, "tags") \cup collect_values(columns, "patterns")
    IN  IF looks_address(column_names, tags) THEN s_address
        ELSE IF looks_geo(column_names, tags) THEN s_geo
        ELSE IF looks_financial(column_names) THEN s_financial
        ELSE IF looks_demographic(column_names) THEN s_demographic
        ELSE s_generic

route(dataset_profile) ==
    LET columns == profile_columns(dataset_profile)
        column_names == {Lower(columns[i].name) : i \in 1..Len(columns)}
        tags == collect_values(columns, "tags") \cup collect_values(columns, "patterns")
    IN  IF looks_geo(column_names, tags) THEN s_geo
        ELSE IF looks_address(column_names, tags) THEN s_address
        ELSE IF looks_financial(column_names) THEN s_financial
        ELSE IF looks_demographic(column_names) THEN s_demographic
        ELSE s_generic

\* FinancialStrategy: the tokens that select the columns it sums
FINANCE_TOKENS ==
    {s_amount, s_revenue, s_fine, s_fee, s_tax, s_payment, s_cost, s_price, s_balance}

\* whether the name of a column contains "amount"
is_amount_key(key) == Contains(key, s_amount)

\* FinancialStrategy.apply: whether the value under `key` enters the total
is_finance_key(key) == \E token \in FINANCE_TOKENS : Contains(key, token)

(* --------------------------- RowDropClassifier ----------------------- *)
FEATURE_KEYS ==
    <<"null_ratio", "empty_text_ratio", "numeric_zero_ratio", "short_text_ratio",
      "essential_missing_ratio">>

ESSENTIAL_FIELDS ==
    {s_dca_license_number, s_license_number, s_provider_record_id, s_business_name,
     s_canonical_legal_entity_name, s_street_address, s_address_city, s_city,
     s_address_state, s_state, s_zip_code, s_latitude, s_longitude,
     s_contact_phone_number, s_phone, s_phone_number}

\* n hundredths as a fixed-point real
Hundredths(n) == (n * Unit) \div 100

DEFAULT_MEANS ==
    [null_ratio |-> Hundredths(15), empty_text_ratio |-> Hundredths(5),
     numeric_zero_ratio |-> Hundredths(10), short_text_ratio |-> Hundredths(10),
     essential_missing_ratio |-> Hundredths(30)]

DEFAULT_SCALES ==
    [null_ratio |-> Hundredths(15), empty_text_ratio |-> Hundredths(5),
     numeric_zero_ratio |-> Hundredths(8), short_text_ratio |-> Hundredths(5),
     essential_missing_ratio |-> Hundredths(20)]

HEURISTIC_BIAS == (0 - 1) * Unit

\* the weights, in tenths
HEURISTIC_WEIGHTS ==
    [null_ratio |-> 30, empty_text_ratio |-> 16, numeric_zero_ratio |-> 12,
     short_text_ratio |-> 13, essential_missing_ratio |-> 40]

DEFAULT_THRESHOLD == Hundredths(65)

\* `import xgboost as xgb` succeeded, so `xgb is not None` holds
xgb_available == TRUE

\* An ensemble is opaque to this code.  It is held as the function it computes
\* on a feature row: one split on one feature with a probability on each side.
NoBooster == [feat |-> "none", split |-> 0, lo |-> 0, hi |-> 0]

\* the ensembles xgb.train may return
Boosters ==
    { [feat |-> "essential_missing_ratio", split |-> Hundredths(40),
       lo |-> Hundredths(10), hi |-> Hundredths(90)],
      [feat |-> "null_ratio", split |-> Hundredths(25),
       lo |-> Hundredths(30), hi |-> Hundredths(50)] }

\* Booster.predict on one row
booster_predict(booster, row) ==
    IF row[booster.feat] > booster.split THEN booster.hi ELSE booster.lo

\* RowDropClassifier(threshold=...): the dataclass defaults
NewClassifier(threshold) ==
    [threshold |-> threshold, feature_means |-> DEFAULT_MEANS,
     feature_scales |-> DEFAULT_SCALES, booster |-> NoBooster,
     model_type |-> "heuristic"]

has_value(value) ==
    IF value.t = "none" THEN FALSE
    ELSE IF value.t = "str" THEN Strip(value.s) # <<>>
    ELSE IF value.t = "nan" THEN FALSE
    ELSE TRUE

Max(a, b) == IF a >= b THEN a ELSE b

\* the argument None of a call that passes no record
NoRecord == <<NoneV>>

\* dict(record or {}): None and the empty dict both give the empty dict
dict_or_empty(record) == IF record = NoRecord THEN <<>> ELSE record

\* _compute_features with float('nan') taken for a value
compute_features_counting_nan(record) ==
    LET row == dict_or_empty(record)
        total_fields == Max(Len(row), 1)
        fields == 1..Len(row)
        missing == {i \in fields : row[i].v.t = "none"}
        blank == {i \in fields : row[i].v.t = "str" /\ Strip(row[i].v.s) = <<>>}
        short == {i \in fields : /\ row[i].v.t = "str"
                                 /\ Strip(row[i].v.s) # <<>>
                                 /\ Len(Strip(row[i].v.s)) <= 2}
        zero == {i \in fields : /\ row[i].v.t \in {"int", "float", "bool", "hundredths"}
                                /\ row[i].v.n = 0}
    IN  [null_ratio |-> ((Cardinality(missing) + Cardinality(blank)) * Unit) \div total_fields,
         empty_text_ratio |-> (Cardinality(blank) * Unit) \div total_fields,
         numeric_zero_ratio |-> (Cardinality(zero) * Unit) \div total_fields,
         short_text_ratio |-> (Cardinality(short) * Unit) \div total_fields,
         essential_missing_ratio |->
             (Cardinality({field \in ESSENTIAL_FIELDS : ~has_value(dict_get(row, field))}) * Unit)
                 \div Max(Cardinality(ESSENTIAL_FIELDS), 1)]

\* the counts of _compute_features: under each feature, (count, denominator)
feature_counts(record) ==
    LET row == dict_or_empty(record)
        total_fields == Max(Len(row), 1)
        fields == 1..Len(row)
        missing == {i \in fields : row[i].v.t \in {"none", "nan"}}
        blank == {i \in fields : row[i].v.t = "str" /\ Strip(row[i].v.s) = <<>>}
        short == {i \in fields : /\ row[i].v.t = "str"
                                 /\ Strip(row[i].v.s) # <<>>
                                 /\ Len(Strip(row[i].v.s)) <= 2}
        zero == {i \in fields : /\ row[i].v.t \in {"int", "float", "bool", "hundredths"}
                                /\ row[i].v.n = 0}
        null_like == Cardinality(missing) + Cardinality(blank)
        empty_text == Cardinality(blank)
        short_text == Cardinality(short)
        numeric_zero == Cardinality(zero)
        essential_missing ==
            Cardinality({field \in ESSENTIAL_FIELDS : ~has_value(dict_get(row, field))})
    IN  [null_ratio |-> <<null_like, total_fields>>,
         empty_text_ratio |-> <<empty_text, total_fields>>,
         numeric_zero_ratio |-> <<numeric_zero, total_fields>>,
         short_text_ratio |-> <<short_text, total_fields>>,
         essential_missing_ratio |->
             <<essential_missing, Max(Cardinality(ESSENTIAL_FIELDS), 1)>>]

\* the quotient count / denominator, in 1/Unit
ratio_of(pair) == (pair[1] * Unit) \div pair[2]

compute_features(record) ==
    With(feature_counts(record), LAMBDA counts :
        [null_ratio |-> ratio_of(counts.null_ratio),
         empty_text_ratio |-> ratio_of(counts.empty_text_ratio),
         numeric_zero_ratio |-> ratio_of(counts.numeric_zero_ratio),
         short_text_ratio |-> ratio_of(counts.short_text_ratio),
         essential_missing_ratio |-> ratio_of(counts.essential_missing_ratio)])

(* ---------------------- the classifier's inputs ---------------------- *)
MaxBatch == 2

\* {"name": "Acme", "amount": 100, "city": "NY"}
AcmeRecord ==
    << [k |-> s_name, v |-> StrV(s_Acme)], [k |-> s_amount, v |-> IntV(100)],
       [k |-> s_city, v |-> StrV(s_NY)] >>

\* {"name": "", "amount": 0, "city": None}
SparseRecord ==
    << [k |-> s_name, v |-> StrV(s_empty)], [k |-> s_amount, v |-> IntV(0)],
       [k |-> s_city, v |-> NoneV] >>

\* a record that carries ten of the essential fields
FullRecord ==
    << [k |-> s_license_number, v |-> IntV(7)],
       [k |-> s_business_name, v |-> StrV(s_NY)],
       [k |-> s_street_address, v |-> StrV(s_NY)],
       [k |-> s_city, v |-> StrV(s_NY)],
       [k |-> s_state, v |-> StrV(s_NY)],
       [k |-> s_zip_code, v |-> IntV(10001)],
       [k |-> s_latitude, v |-> IntV(40)],
       [k |-> s_longitude, v |-> IntV(0 - 73)],
       [k |-> s_phone, v |-> IntV(5551234)],
       [k |-> s_address_city, v |-> StrV(s_NY)] >>

Records == {AcmeRecord, SparseRecord, FullRecord}

Batches == UNION {[1..n -> Records] : n \in 0..MaxBatch}

\* compute_features on each record of the universe, computed once and held as
\* an explicit table
RECURSIVE FeatureTable(_)
FeatureTable(records) ==
    IF records = {} THEN <<>>
    ELSE LET record == CHOOSE r \in records : TRUE
         IN  (record :> compute_features(record)) @@ FeatureTable(records \ {record})

FeatureCache == FeatureTable(Records)

\* [self._compute_features(record) for record in records]
features_of(records) ==
    [i \in 1..Len(records) |->
        IF records[i] \in Records THEN FeatureCache[records[i]]
        ELSE compute_features(records[i])]

\* the same features as the floats they are: count / denominator
exact_features_of(records) ==
    [i \in 1..Len(records) |->
        With(feature_counts(records[i]), LAMBDA counts :
            [key \in Range(FEATURE_KEYS) |-> FloatDiv(counts[key][1], counts[key][2])])]

\* sum(values) / len(values) on floats
float_mean(values) ==
    LET total[i \in 0..Len(values)] ==
            IF i = 0 THEN FloatZero ELSE FloatAdd(total[i - 1], values[i])
    IN  With(total[Len(values)], LAMBDA sum :
            IF sum = FloatZero THEN FloatZero
            ELSE FloatQuotient(sum, FloatOfInt(Len(values))))

\* whether sum((v - mean) ** 2 for v in values) / len(values) is 0.0: each
\* v - mean is then 0.0, for the square of a non-zero difference of two
\* ratios does not underflow
zero_variance(values) ==
    With(values \o <<>>, LAMBDA held :
        With(float_mean(held), LAMBDA mean : \A i \in 1..Len(held) : held[i] = mean))

\* a scale that is not 0.0 and is below 1/Unit is held as 1/Unit
TinyScale == 1

\* _recompute_feature_stats: the new feature_means and feature_scales.  The
\* statistics are computed in 1/Unit; where they give a zero deviation, the
\* test `math.sqrt(variance) or default` is decided on the floats `exact`.
recompute_feature_stats(features, exact) ==
    LET n == Len(features)
        mean(key) == SumSeq([i \in 1..n |-> features[i][key]]) \div n
        variance(key) ==
            SumSeq([i \in 1..n |-> (features[i][key] - mean(key)) * (features[i][key] - mean(key))])
                \div Max(n, 1)
        scale(key) ==
            IF Sqrt(variance(key)) # 0 THEN Sqrt(variance(key))
            ELSE IF zero_variance([i \in 1..n |-> exact[i][key]]) THEN DEFAULT_SCALES[key]
            ELSE TinyScale
    IN  [feature_means |-> [key \in Range(FEATURE_KEYS) |-> mean(key)],
         feature_scales |-> [key \in Range(FEATURE_KEYS) |-> scale(key)]]

\* _pseudo_labels with numeric_zero_ratio >= 0.5 for numeric_zero_ratio > 0.5
pseudo_labels_from_half(features) ==
    [i \in 1..Len(features) |->
        LET row == features[i]
            drop ==
                \/ row.null_ratio > Hundredths(45)
                \/ row.empty_text_ratio > Hundredths(35)
                \/ (row.null_ratio > Hundredths(25) /\ row.short_text_ratio > Hundredths(20))
                \/ row.numeric_zero_ratio >= Hundredths(50)
                \/ row.essential_missing_ratio > Hundredths(40)
                \/ (row.essential_missing_ratio > Hundredths(25) /\ row.null_ratio > Hundredths(20))
        IN  IF drop THEN 1 ELSE 0]

\* _pseudo_labels with essential_missing_ratio > 0.45 for essential_missing_ratio > 0.4
pseudo_labels_lenient(features) ==
    [i \in 1..Len(features) |->
        LET row == features[i]
            drop ==
                \/ row.null_ratio > Hundredths(45)
                \/ row.empty_text_ratio > Hundredths(35)
                \/ (row.null_ratio > Hundredths(25) /\ row.short_text_ratio > Hundredths(20))
                \/ row.numeric_zero_ratio > Hundredths(50)
                \/ row.essential_missing_ratio > Hundredths(45)
                \/ (row.essential_missing_ratio > Hundredths(25) /\ row.null_ratio > Hundredths(20))
        IN  IF drop THEN 1 ELSE 0]

pseudo_labels(features) ==
    [i \in 1..Len(features) |->
        LET row == features[i]
            drop ==
                \/ row.null_ratio > Hundredths(45)
                \/ row.empty_text_ratio > Hundredths(35)
                \/ (row.null_ratio > Hundredths(25) /\ row.short_text_ratio > Hundredths(20))
                \/ row.numeric_zero_ratio > Hundredths(50)
                \/ row.essential_missing_ratio > Hundredths(40)
                \/ (row.essential_missing_ratio > Hundredths(25) /\ row.null_ratio > Hundredths(20))
        IN  IF drop THEN 1 ELSE 0]

\* the statistics and pseudo-labels of each batch of the universe, computed once
RECURSIVE FitTable(_)
FitTable(batches) ==
    IF batches = {} THEN <<>>
    ELSE LET records == CHOOSE b \in batches : TRUE
         IN  (records :> [stats |-> recompute_feature_stats(features_of(records), exact_features_of(records)),
                          labels |-> pseudo_labels(features_of(records))])
             @@ FitTable(batches \ {records})

FitCache == FitTable(Batches \ {<<>>})

\* fit with the ensemble of an earlier fit kept when none is trained
fit_keeping_booster(self, records, trained) ==
    LET features == features_of(records)
        cached == records \in Batches
    IN  IF features = <<>>
        THEN [self EXCEPT !.feature_means = DEFAULT_MEANS,
                          !.feature_scales = DEFAULT_SCALES,
                          !.model_type = "heuristic"]
        ELSE LET stats == IF cached THEN FitCache[records].stats
                          ELSE recompute_feature_stats(features, exact_features_of(records))
                 labels == IF cached THEN FitCache[records].labels
                           ELSE pseudo_labels(features)
             IN  IF xgb_available /\ Cardinality(Range(labels)) > 1
                 THEN [self EXCEPT !.feature_means = stats.feature_means,
                                   !.feature_scales = stats.feature_scales,
                                   !.booster = trained,
                                   !.model_type = "xgboost"]
                 ELSE [self EXCEPT !.feature_means = stats.feature_means,
                                   !.feature_scales = stats.feature_scales,
                                   !.model_type = "heuristic"]

\* RowDropClassifier.fit; `trained` is the ensemble xgb.train returns if it is called
fit(self, records, trained) ==
    LET features == features_of(records)
        cached == records \in Batches
    IN  IF features = <<>>
        THEN [self EXCEPT !.feature_means = DEFAULT_MEANS,
                          !.feature_scales = DEFAULT_SCALES,
                          !.model_type = "heuristic",
                          !.booster = NoBooster]
        ELSE LET stats == IF cached THEN FitCache[records].stats
                          ELSE recompute_feature_stats(features, exact_features_of(records))
                 labels == IF cached THEN FitCache[records].labels
                           ELSE pseudo_labels(features)
             IN  IF xgb_available /\ Cardinality(Range(labels)) > 1
                 THEN [self EXCEPT !.feature_means = stats.feature_means,
                                   !.feature_scales = stats.feature_scales,
                                   !.booster = trained,
                                   !.model_type = "xgboost"]
                 ELSE [self EXCEPT !.feature_means = stats.feature_means,
                                   !.feature_scales = stats.feature_scales,
                                   !.booster = NoBooster,
                                   !.model_type = "heuristic"]

\* dict.get(key, default)
get_or(mapping, key, default) == IF key \in DOMAIN mapping THEN mapping[key] ELSE default

\* _standardize without the subtraction of the mean
standardize_uncentred(self, feature, value) ==
    LET given == get_or(self.feature_scales, feature, DEFAULT_SCALES[feature])
        scale == IF given = 0 THEN DEFAULT_SCALES[feature] ELSE given
    IN  (value * Unit) \div scale

standardize(self, feature, value) ==
    LET mean == get_or(self.feature_means, feature, DEFAULT_MEANS[feature])
        given == get_or(self.feature_scales, feature, DEFAULT_SCALES[feature])
        scale == IF given = 0 THEN DEFAULT_SCALES[feature] ELSE given
    IN  ((value - mean) * Unit) \div scale

\* 1/(1 + exp(-x)) at the probabilities 0.05, 0.10, ..., 0.95: <<p, logit(p)>>
SigmoidTable ==
    <<<<500, -29444>>, <<1000, -21972>>, <<1500, -17346>>, <<2000, -13862>>, <<2500, -10986>>, <<3000, -8472>>, <<3500, -6190>>, <<4000, -4054>>, <<4500, -2006>>, <<5000, 0>>, <<5500, 2007>>, <<6000, 4055>>, <<6500, 6191>>, <<7000, 8473>>, <<7500, 10987>>, <<8000, 13863>>, <<8500, 17347>>, <<9000, 21973>>, <<9500, 29445>>>>

\* _sigmoid, rounded down to a multiple of 0.05: for a threshold that is such a
\* multiple, prob >= threshold is decided as for the exact value
RECURSIVE SigmoidScan(_, _)
SigmoidScan(value, i) ==
    IF i = 0 THEN 0
    ELSE IF SigmoidTable[i][2] <= value THEN SigmoidTable[i][1]
    ELSE SigmoidScan(value, i - 1)

sigmoid(value) == SigmoidScan(value, Len(SigmoidTable))

heuristic_probability(self, feature_row) ==
    LET term(k) ==
            (HEURISTIC_WEIGHTS[FEATURE_KEYS[k]]
                * standardize(self, FEATURE_KEYS[k], feature_row[FEATURE_KEYS[k]])) \div 10
        z == HEURISTIC_BIAS + SumSeq([k \in 1..Len(FEATURE_KEYS) |-> term(k)])
    IN  sigmoid(z)

predict_proba(self, records) ==
    LET features == features_of(records)
    IN  IF features = <<>> THEN <<>>
        ELSE IF self.model_type = "xgboost" /\ self.booster # NoBooster /\ xgb_available
        THEN [i \in 1..Len(features) |-> booster_predict(self.booster, features[i])]
        ELSE [i \in 1..Len(features) |-> heuristic_probability(self, features[i])]


\* predict_drop with the comparison prob > threshold
predict_drop_strict(self, records, auto_fit, trained) ==
    With(IF auto_fit THEN fit(self, records, trained) ELSE self, LAMBDA after :
        With(predict_proba(after, records), LAMBDA probabilities :
            [self |-> after,
             value |-> [i \in 1..Len(probabilities) |-> probabilities[i] > after.threshold]]))

\* predict_drop that never refits, whatever auto_fit is
predict_drop_never_fitting(self, records, auto_fit, trained) ==
    With(predict_proba(self, records), LAMBDA probabilities :
        [self |-> self,
         value |-> [i \in 1..Len(probabilities) |-> probabilities[i] >= self.threshold]])

\* predict_drop: the classifier afterwards and the returned mask
predict_drop(self, records, auto_fit, trained) ==
    With(IF auto_fit THEN fit(self, records, trained) ELSE self, LAMBDA after :
        With(predict_proba(after, records), LAMBDA probabilities :
            [self |-> after,
             value |-> [i \in 1..Len(probabilities) |-> probabilities[i] >= after.threshold]]))

\* the elements of seq whose index satisfies keep, in order
RECURSIVE SelectIndexed(_, _, _)
SelectIndexed(seq, mask, i) ==
    IF i > Len(seq) \/ i > Len(mask) THEN <<>>
    ELSE (IF ~mask[i] THEN <<seq[i]>> ELSE <<>>) \o SelectIndexed(seq, mask, i + 1)

\* filter_records: the classifier afterwards and (kept, dropped_count)
filter_records(self, records, auto_fit, trained) ==
    With(predict_drop(self, records, auto_fit, trained), LAMBDA r :
        [self |-> r.self,
         value |-> [kept |-> SelectIndexed(records, r.value, 1),
                    dropped |-> Cardinality({i \in 1..Len(r.value) : r.value[i]})]])

(* ------------------------ persistence: save / load ------------------- *)
\* the "booster" entry of the JSON payload: null, or base64 text of the raw model
NullBlob == [kind |-> "null", raw |-> NoBooster]
\* base64.b64encode(booster.save_raw()).decode("ascii")
b64encode(booster) == [kind |-> "b64", raw |-> booster]
\* text that is not the encoding of a model: Booster.load_model rejects it
CorruptBlob == [kind |-> "b64", raw |-> [feat |-> "corrupt", split |-> 0, lo |-> 0, hi |-> 0]]

\* save with the booster never written into the payload
save_without_booster(self) ==
    [threshold |-> self.threshold,
     feature_means |-> self.feature_means,
     feature_scales |-> self.feature_scales,
     model_type |-> self.model_type,
     booster |-> NullBlob]

\* RowDropClassifier.save: the JSON document written to the path
save(self) ==
    [threshold |-> self.threshold,
     feature_means |-> self.feature_means,
     feature_scales |-> self.feature_scales,
     model_type |-> self.model_type,
     booster |-> IF self.model_type = "xgboost" /\ self.booster # NoBooster /\ xgb_available
                 THEN b64encode(self.booster)
                 ELSE NullBlob]

\* load with the declared model_type kept when no ensemble is restored
load_keeping_model_type(metadata) ==
    IF ~({"threshold", "feature_means", "feature_scales"} \subseteq DOMAIN metadata)
    THEN [raised |-> TRUE, classifier |-> NewClassifier(DEFAULT_THRESHOLD)]
    ELSE LET classifier ==
                 [NewClassifier(metadata.threshold) EXCEPT
                     !.feature_means = metadata.feature_means,
                     !.feature_scales = metadata.feature_scales,
                     !.model_type = get_or(metadata, "model_type", "heuristic")]
             booster_blob == get_or(metadata, "booster", NullBlob)
         IN  IF booster_blob # NullBlob /\ classifier.model_type = "xgboost" /\ xgb_available
             THEN IF booster_blob.raw \in Boosters
                  THEN [raised |-> FALSE,
                        classifier |-> [classifier EXCEPT !.booster = booster_blob.raw]]
                  ELSE [raised |-> TRUE, classifier |-> classifier]
             ELSE [raised |-> FALSE, classifier |-> classifier]

\* RowDropClassifier.load on the JSON document `metadata`: whether it raised, and
\* the classifier it returned otherwise
load(metadata) ==
    IF ~({"threshold", "feature_means", "feature_scales"} \subseteq DOMAIN metadata)
    THEN [raised |-> TRUE, classifier |-> NewClassifier(DEFAULT_THRESHOLD)]
    ELSE LET classifier ==
                 [NewClassifier(metadata.threshold) EXCEPT
                     !.feature_means = metadata.feature_means,
                     !.feature_scales = metadata.feature_scales,
                     !.model_type = get_or(metadata, "model_type", "heuristic")]
             booster_blob == get_or(metadata, "booster", NullBlob)
         IN  IF booster_blob # NullBlob /\ classifier.model_type = "xgboost" /\ xgb_available
             THEN IF booster_blob.raw \in Boosters
                  THEN [raised |-> FALSE,
                        classifier |-> [classifier EXCEPT !.booster = booster_blob.raw]]
                  ELSE [raised |-> TRUE, classifier |-> classifier]
             ELSE [raised |-> FALSE,
                   classifier |-> [classifier EXCEPT !.booster = NoBooster,
                                                     !.model_type = "heuristic"]]

(* ------------------- thresholds and foreign payloads ----------------- *)
\* the thresholds given to the constructor: the default and the tests' 0.5
Thresholds == {DEFAULT_THRESHOLD, Hundredths(50)}

\* documents found at a path that this program did not write
ForeignPayloads ==
    { \* declares the trained type, booster null
      [threshold |-> DEFAULT_THRESHOLD, feature_means |-> DEFAULT_MEANS,
       feature_scales |-> DEFAULT_SCALES, model_type |-> "xgboost", booster |-> NullBlob],
      \* declares the trained type, no booster entry
      [threshold |-> DEFAULT_THRESHOLD, feature_means |-> DEFAULT_MEANS,
       feature_scales |-> DEFAULT_SCALES, model_type |-> "xgboost"],
      \* declares the type under the name "trained"
      [threshold |-> DEFAULT_THRESHOLD, feature_means |-> DEFAULT_MEANS,
       feature_scales |-> DEFAULT_SCALES, model_type |-> "trained",
       booster |-> b64encode(CHOOSE b \in Boosters : b.feat = "null_ratio")],
      \* declares the trained type, booster text that is no model
      [threshold |-> DEFAULT_THRESHOLD, feature_means |-> DEFAULT_MEANS,
       feature_scales |-> DEFAULT_SCALES, model_type |-> "xgboost", booster |-> CorruptBlob] }

(* ------------------------ unique_value_analyzer ---------------------- *)
is_missing(value) == value.t \in {"none", "nan"}

\* _make_hashable, up to the equality and hash the set and the Counter go by:
\* 1, 1.0 and True are one key, a str is itself, a list becomes a tuple
make_hashable(value) ==
    IF value.t \in {"int", "float", "bool"} THEN [t |-> "number", s |-> <<>>, n |-> value.n]
    ELSE IF value.t = "list" THEN [t |-> "tuple", s |-> <<>>, n |-> 0]
    ELSE value

\* the summary with every ratio over the number of non-null values
unique_value_summary_over_non_null(values) ==
    LET present == {i \in 1..Len(values) : ~is_missing(values[i])}
        keys == {make_hashable(values[i]) : i \in present}
        occurrences(key) == Cardinality({i \in present : make_hashable(values[i]) = key})
        most_common_count ==
            IF keys = {} THEN 0
            ELSE occurrences(CHOOSE k \in keys : \A other \in keys : occurrences(other) <= occurrences(k))
        denominator == Max(Cardinality(present), 1)
    IN  [total_count |-> FloatOfInt(Len(values)),
         non_null_count |-> FloatOfInt(Cardinality(present)),
         distinct_count |-> FloatOfInt(Cardinality(keys)),
         distinct_ratio |-> FloatDiv(Cardinality(keys), denominator),
         null_ratio |-> FloatDiv(Len(values) - Cardinality(present), denominator),
         most_frequent_ratio |-> FloatDiv(most_common_count, denominator)]

unique_value_summary(values) ==
    LET total == Len(values)
        present == {i \in 1..Len(values) : ~is_missing(values[i])}
        null_count == total - Cardinality(present)
        keys == {make_hashable(values[i]) : i \in present}
        occurrences(key) == Cardinality({i \in present : make_hashable(values[i]) = key})
        most_common_count ==
            IF keys = {} THEN 0
            ELSE occurrences(CHOOSE k \in keys : \A other \in keys : occurrences(other) <= occurrences(k))
    IN  IF total = 0
        THEN [total_count |-> FloatZero, non_null_count |-> FloatZero,
              distinct_count |-> FloatZero, distinct_ratio |-> FloatZero,
              null_ratio |-> FloatZero, most_frequent_ratio |-> FloatZero]
        ELSE [total_count |-> FloatOfInt(total),
              non_null_count |-> FloatOfInt(Cardinality(present)),
              distinct_count |-> FloatOfInt(Cardinality(keys)),
              distinct_ratio |-> FloatDiv(Cardinality(keys), total),
              null_ratio |-> FloatDiv(null_count, total),
              most_frequent_ratio |-> FloatDiv(most_common_count, total)]

(* --------------------------- pattern_detector ------------------------ *)
\* \d on a str: the decimal digits of Unicode, here 0-9 and the Arabic-Indic digits
IsDigit(c) == (c >= 48 /\ c <= 57) \/ (c >= 1632 /\ c <= 1641)
AllDigits(s, from, to) == \A i \in from..to : IsDigit(s[i])

\* ^\d{5}(?:-\d{4})?$
match_zip_code(s) ==
    \/ Len(s) = 5 /\ AllDigits(s, 1, 5)
    \/ Len(s) = 10 /\ AllDigits(s, 1, 5) /\ s[6] = 45 /\ AllDigits(s, 7, 10)

\* ^[A-Z]{2}$
match_state_code(s) == Len(s) = 2 /\ \A i \in 1..2 : s[i] >= 65 /\ s[i] <= 90

\* ^\d{4}-\d{2}-\d{2}$
match_iso_date(s) ==
    /\ Len(s) = 10
    /\ AllDigits(s, 1, 4) /\ s[5] = 45 /\ AllDigits(s, 6, 7) /\ s[8] = 45 /\ AllDigits(s, 9, 10)

\* ^[^@\s]+@[^@\s]+\.[^@\s]+$
match_email(s) ==
    \E at \in 2..Len(s) : \E dot \in (at + 2)..(Len(s) - 1) :
        /\ s[at] = 64
        /\ s[dot] = 46
        /\ \A i \in 1..Len(s) : i # at => (s[i] # 64 /\ s[i] \notin Whitespace)

\* ^\+?[\d\-\s().]{7,}$
match_phone(s) ==
    LET body == IF s # <<>> /\ s[1] = 43 THEN Tail(s) ELSE s
    IN  /\ Len(body) >= 7
        /\ \A i \in 1..Len(body) :
               IsDigit(body[i]) \/ body[i] \in {45, 40, 41, 46} \/ body[i] \in Whitespace

\* _PATTERNS, in the order of the dict
PATTERNS == <<s_zip_code, s_state_code, s_iso_date, s_email, s_phone>>

\* pattern.fullmatch(value)
fullmatch(name, value) ==
    IF name = s_zip_code THEN match_zip_code(value)
    ELSE IF name = s_state_code THEN match_state_code(value)
    ELSE IF name = s_iso_date THEN match_iso_date(value)
    ELSE IF name = s_email THEN match_email(value)
    ELSE match_phone(value)

\* _MIN_RATIO = 0.8
MIN_RATIO == FloatDiv(8, 10)

\* detect_patterns with the ratio taken over the strings that are not blank
detect_patterns_over_non_blank(values) ==
    LET IsStr(value) == value.t = "str"
        strings == SelectSeq(values, IsStr)
        normalized == [i \in 1..Len(strings) |-> Strip(strings[i].s)]
        total == Cardinality({i \in 1..Len(normalized) : normalized[i] # <<>>})
        count(name) == Cardinality({i \in 1..Len(normalized) : fullmatch(name, normalized[i])})
        Reported(name) == total # 0 /\ ~FloatLess(FloatDiv(count(name), Max(total, 1)), MIN_RATIO)
    IN  IF normalized = <<>> THEN <<>> ELSE SelectSeq(PATTERNS, Reported)

detect_patterns(values) ==
    LET IsStr(value) == value.t = "str"
        strings == SelectSeq(values, IsStr)
        normalized == [i \in 1..Len(strings) |-> Strip(strings[i].s)]
        total == Len(normalized)
        count(name) == Cardinality({i \in 1..total : fullmatch(name, normalized[i])})
        Reported(name) == total # 0 /\ ~FloatLess(FloatDiv(count(name), total), MIN_RATIO)
    IN  IF normalized = <<>> THEN <<>> ELSE SelectSeq(PATTERNS, Reported)

(* -------------------------- schema_fingerprint ----------------------- *)
\* the names in the order of their first occurrence
RECURSIVE Dedup(_, _)
Dedup(columns, seen) ==
    IF columns = <<>> THEN <<>>
    ELSE IF Head(columns) \in seen THEN Dedup(Tail(columns), seen)
    ELSE <<Head(columns)>> \o Dedup(Tail(columns), seen \cup {Head(columns)})

\* "||".join(ordered)
RECURSIVE Join(_, _)
Join(separator, parts) ==
    IF parts = <<>> THEN <<>>
    ELSE IF Len(parts) = 1 THEN parts[1]
    ELSE parts[1] \o separator \o Join(separator, Tail(parts))

\* str.encode("utf-8") for characters below U+10000 that are no surrogates
RECURSIVE encode_utf8(_)
encode_utf8(text) ==
    IF text = <<>> THEN <<>>
    ELSE LET c == Head(text)
         IN  (IF c < 128 THEN <<c>>
              ELSE IF c < 2048 THEN <<192 + (c \div 64), 128 + (c % 64)>>
              ELSE <<224 + (c \div 4096), 128 + ((c \div 64) % 64), 128 + (c % 64)>>)
             \o encode_utf8(Tail(text))

\* SHA-1 (FIPS 180-4) on 32-bit words held as <<high half, low half>>
Half == 256 * 256

RECURSIVE BitXor(_, _)
BitXor(a, b) ==
    IF a = 0 THEN b ELSE IF b = 0 THEN a
    ELSE ((a + b) % 2) + 2 * BitXor(a \div 2, b \div 2)

RECURSIVE BitAnd(_, _)
BitAnd(a, b) ==
    IF a = 0 \/ b = 0 THEN 0 ELSE ((a % 2) * (b % 2)) + 2 * BitAnd(a \div 2, b \div 2)

WordXor(x, y) == <<BitXor(x[1], y[1]), BitXor(x[2], y[2])>>
WordAnd(x, y) == <<BitAnd(x[1], y[1]), BitAnd(x[2], y[2])>>
WordNot(x) == <<Half - 1 - x[1], Half - 1 - x[2]>>
WordAdd(x, y) == <<(x[1] + y[1] + ((x[2] + y[2]) \div Half)) % Half, (x[2] + y[2]) % Half>>

\* rotation to the left by n bits, 0 < n < 16, and by 30 bits
RotateLeft(x, n) ==
    <<((x[1] * Pow2(n)) % Half) + (x[2] \div Pow2(16 - n)),
      ((x[2] * Pow2(n)) % Half) + (x[1] \div Pow2(16 - n))>>
RotateLeft30(x) == RotateLeft(<<x[2], x[1]>>, 14)

\* the message with its padding: 0x80, zeros, and the length in bits
sha1_pad(bytes) ==
    LET bits == 8 * Len(bytes)
    IN  bytes \o <<128>> \o [i \in 1..((119 - Len(bytes)) % 64) |-> 0]
        \o <<0, 0, 0, 0, (bits \div (Half * 256)) % 256, (bits \div Half) % 256,
             (bits \div 256) % 256, bits % 256>>

\* the message schedule of a block, extended up to `last` words
RECURSIVE sha1_schedule(_, _)
sha1_schedule(w, last) ==
    IF Len(w) >= last THEN w
    ELSE With(Append(w, RotateLeft(WordXor(WordXor(w[Len(w) - 2], w[Len(w) - 7]),
                                           WordXor(w[Len(w) - 13], w[Len(w) - 15])), 1)),
              LAMBDA extended : sha1_schedule(extended, last))

\* round t of the compression, on the working variables <<a, b, c, d, e>>
sha1_round(t, s, w) ==
    LET a == s[1]  b == s[2]  c == s[3]  d == s[4]  e == s[5]
        f == IF t <= 20 THEN WordXor(WordAnd(b, c), WordAnd(WordNot(b), d))
             ELSE IF t <= 40 \/ t > 60 THEN WordXor(b, WordXor(c, d))
             ELSE WordXor(WordAnd(b, c), WordXor(WordAnd(b, d), WordAnd(c, d)))
        k == IF t <= 20 THEN <<23170, 31129>>
             ELSE IF t <= 40 THEN <<28377, 60321>>
             ELSE IF t <= 60 THEN <<36635, 48348>>
             ELSE <<51810, 49622>>
    IN  <<WordAdd(WordAdd(WordAdd(RotateLeft(a, 5), f), WordAdd(e, k)), w[t]),
          a, RotateLeft30(b), c, d>>

\* the rounds from p.t to `last` on p = [t, s, w]
RECURSIVE sha1_rounds(_, _)
sha1_rounds(p, last) ==
    IF p.t > last THEN p
    ELSE With([t |-> p.t + 1, s |-> sha1_round(p.t, p.s, p.w), w |-> p.w],
              LAMBDA next : sha1_rounds(next, last))

\* the compression of one block of 64 bytes into the hash value h
sha1_compress(h, block) ==
    With(sha1_schedule([i \in 1..16 |->
             <<256 * block[4 * i - 3] + block[4 * i - 2],
               256 * block[4 * i - 1] + block[4 * i]>>], 32), LAMBDA w32 :
    With(sha1_schedule(w32, 48), LAMBDA w48 :
    With(sha1_schedule(w48, 64), LAMBDA w64 :
    With(sha1_schedule(w64, 80), LAMBDA w :
    With(sha1_rounds([t |-> 1, s |-> h, w |-> w], 20), LAMBDA p20 :
    With(sha1_rounds(p20, 40), LAMBDA p40 :
    With(sha1_rounds(p40, 60), LAMBDA p60 :
    With(sha1_rounds(p60, 80), LAMBDA p80 :
        [i \in 1..5 |-> WordAdd(h[i], p80.s[i])]))))))))

\* the hash value after the blocks of the padded message
RECURSIVE sha1_blocks(_)
sha1_blocks(p) ==
    IF p.padded = <<>> THEN p.h
    ELSE With([h |-> sha1_compress(p.h, SubSeq(p.padded, 1, 64)),
               padded |-> SubSeq(p.padded, 65, Len(p.padded))],
              LAMBDA next : sha1_blocks(next))

\* four hexadecimal digits of a half word
hex4(n) ==
    LET digit(v) == IF v < 10 THEN 48 + v ELSE 87 + v
    IN  <<digit(n \div 4096), digit((n \div 256) % 16), digit((n \div 16) % 16), digit(n % 16)>>

\* hashlib.sha1(bytes).hexdigest()[:16]
sha1_hex16(bytes) ==
    With(sha1_blocks([h |-> <<<<26437, 8961>>, <<61389, 43913>>, <<39098, 56574>>,
                              <<4146, 21622>>, <<50130, 57840>>>>,
                      padded |-> sha1_pad(bytes)]),
         LAMBDA h : hex4(h[1][1]) \o hex4(h[1][2]) \o hex4(h[2][1]) \o hex4(h[2][2]))

\* fingerprint without the early return for an empty list
\* the names without the repeats that directly follow their first occurrence
RECURSIVE DedupSuccessive(_)
DedupSuccessive(columns) ==
    IF Len(columns) < 2 THEN columns
    ELSE IF columns[1] = columns[2] THEN DedupSuccessive(Tail(columns))
    ELSE <<columns[1]>> \o DedupSuccessive(Tail(columns))

fingerprint_successive(columns) ==
    IF columns = <<>> THEN s_empty
    ELSE sha1_hex16(encode_utf8(Join(s_separator, DedupSuccessive(columns))))

fingerprint_hashing_empty(columns) ==
    sha1_hex16(encode_utf8(Join(s_separator, Dedup(columns, {}))))

fingerprint(columns) ==
    IF columns = <<>> THEN s_empty
    ELSE sha1_hex16(encode_utf8(Join(s_separator, Dedup(columns, {}))))

(* --------------------------- heuristics_engine ----------------------- *)
\* A float that may be negative, infinite or not a number is [kind, f]: f its
\* magnitude and kind one of "finite" (zero or positive), "negative", "inf",
\* "-inf" and "nan".
Finite(f) == [kind |-> "finite", f |-> f]
NotANumber == [kind |-> "nan", f |-> FloatZero]
SignedFloat(negative, f) == [kind |-> IF negative THEN "negative" ELSE "finite", f |-> f]
SignedInf(negative) == [kind |-> IF negative THEN "-inf" ELSE "inf", f |-> FloatZero]

\* x > c, x < c and x >= c for a positive float literal c
Exceeds(x, c) == x.kind = "inf" \/ (x.kind = "finite" /\ FloatLess(c, x.f))
Below(x, c) == x.kind \in {"negative", "-inf"} \/ (x.kind = "finite" /\ FloatLess(x.f, c))
AtLeast(x, c) == x.kind = "inf" \/ (x.kind = "finite" /\ ~FloatLess(x.f, c))

DigitValue(c) == IF c >= 1632 THEN c - 1632 ELSE c - 48

\* digits, with single underscores allowed between two digits
IsDigitGroup(s) ==
    /\ s # <<>> /\ IsDigit(s[1]) /\ IsDigit(s[Len(s)])
    /\ \A i \in 1..Len(s) : IsDigit(s[i]) \/ (s[i] = 95 /\ IsDigit(s[i - 1]) /\ IsDigit(s[i + 1]))

DigitCount(s) == Cardinality({i \in 1..Len(s) : IsDigit(s[i])})

RECURSIVE DigitsValue(_)
DigitsValue(s) ==
    IF s = <<>> THEN 0
    ELSE LET front == SubSeq(s, 1, Len(s) - 1)
         IN  IF IsDigit(s[Len(s)]) THEN 10 * DigitsValue(front) + DigitValue(s[Len(s)])
             ELSE DigitsValue(front)

RECURSIVE Pow10(_)
Pow10(n) == IF n = 0 THEN 1 ELSE 10 * Pow10(n - 1)

\* the position of the only character of `marks` in a str, one past its end
\* when there is none, and 0 when there are several
OnlyIndex(text, marks) ==
    IF \A i \in 1..Len(text) : text[i] \notin marks THEN Len(text) + 1
    ELSE IF \E i \in 1..Len(text) : \E j \in (i + 1)..Len(text) : text[i] \in marks /\ text[j] \in marks
    THEN 0
    ELSE CHOOSE i \in 1..Len(text) : text[i] \in marks

\* the float that is digits * 10^power
decimal_float(negative, digits, power) ==
    SignedFloat(negative, IF power >= 0 THEN FloatOfInt(digits * Pow10(power))
                          ELSE FloatDiv(digits, Pow10(0 - power)))

\* a decimal number given by its parts: the digits before and after the
\* point, whether it has an exponent, and the exponent with its sign
float_of_parts(negative, whole, fraction, has_exponent, exponent_negative, exponent) ==
    IF /\ whole = <<>> \/ IsDigitGroup(whole)
       /\ fraction = <<>> \/ IsDigitGroup(fraction)
       /\ whole # <<>> \/ fraction # <<>>
       /\ ~has_exponent \/ IsDigitGroup(exponent)
    THEN [ok |-> TRUE,
          value |-> decimal_float(negative,
                        DigitsValue(whole) * Pow10(DigitCount(fraction)) + DigitsValue(fraction),
                        (IF exponent_negative THEN 0 - 1 ELSE 1) * DigitsValue(exponent)
                            - DigitCount(fraction))]
    ELSE [ok |-> FALSE, value |-> Finite(FloatZero)]

\* a decimal number given by its mantissa and the text after the e, if any
float_of_mantissa(negative, mantissa, dot, has_exponent, exponent) ==
    IF dot = 0 THEN [ok |-> FALSE, value |-> Finite(FloatZero)]
    ELSE float_of_parts(negative, SubSeq(mantissa, 1, dot - 1),
                        SubSeq(mantissa, dot + 1, Len(mantissa)), has_exponent,
                        exponent # <<>> /\ exponent[1] = 45,
                        IF exponent # <<>> /\ exponent[1] \in {43, 45} THEN Tail(exponent)
                        ELSE exponent)

\* the text after the sign: inf, infinity or nan in any case, or a decimal
\* number with an optional fraction and exponent
float_of_body(negative, body, mark) ==
    IF Lower(body) \in {s_inf, s_infinity} THEN [ok |-> TRUE, value |-> SignedInf(negative)]
    ELSE IF Lower(body) = s_nan THEN [ok |-> TRUE, value |-> NotANumber]
    ELSE IF mark = 0 THEN [ok |-> FALSE, value |-> Finite(FloatZero)]
    ELSE float_of_mantissa(negative, SubSeq(body, 1, mark - 1),
                           OnlyIndex(SubSeq(body, 1, mark - 1), {46}),
                           mark <= Len(body), SubSeq(body, mark + 1, Len(body)))

float_of_stripped(s) ==
    IF s # <<>> /\ s[1] \in {43, 45}
    THEN float_of_body(s[1] = 45, Tail(s), OnlyIndex(Tail(s), {101, 69}))
    ELSE float_of_body(FALSE, s, OnlyIndex(s, {101, 69}))

\* float(text) on a str: [ok, value], ok false where Python raises ValueError;
\* for numbers whose digits and powers of ten stay below 2^31
float_of_str(text) == float_of_stripped(Strip(text))

\* float(text): the parsed float, or ValueError
str_to_float(parsed) ==
    IF parsed.ok THEN [raised |-> "", value |-> parsed.value]
    ELSE [raised |-> "ValueError", value |-> Finite(FloatZero)]

\* float(value): [raised, value], raised the name of the exception or "".
\* A float of the model [m, e] is itself; a cell converts by its type.
to_float(value) ==
    LET returned(x) == [raised |-> "", value |-> x]
        raises(error) == [raised |-> error, value |-> Finite(FloatZero)]
    IN  IF "m" \in DOMAIN value THEN returned(Finite(value))
        ELSE CASE value.t \in {"int", "float", "bool"} ->
                      returned(SignedFloat(value.n < 0,
                                           FloatOfInt(IF value.n < 0 THEN 0 - value.n ELSE value.n)))
               [] value.t = "hundredths" -> returned(Finite(FloatDiv(value.n, 100)))
               [] value.t = "nan" -> returned(NotANumber)
               [] value.t = "bigint" -> raises("OverflowError")
               [] value.t = "str" -> str_to_float(float_of_str(value.s))
               [] OTHER -> raises("TypeError")

\* the handler of _safe_ratio: TypeError and ValueError become 0.0
except_to_zero(converted) ==
    IF converted.raised \in {"TypeError", "ValueError"}
    THEN [raised |-> "", value |-> Finite(FloatZero)]
    ELSE converted

\* _safe_ratio: [raised, value]
safe_ratio(summary, key) == except_to_zero(to_float(get_or(summary, key, FloatZero)))

\* str.endswith
EndsWith(name, suffix) ==
    Len(name) >= Len(suffix) /\ SubSeq(name, Len(name) - Len(suffix) + 1, Len(name)) = suffix

\* bool(value) on a cell
truthy(value) ==
    CASE value.t = "none" -> FALSE
      [] value.t = "str" -> value.s # <<>>
      [] value.t \in {"int", "float", "bool", "hundredths"} -> value.n # 0
      [] value.t = "list" -> FALSE
      [] OTHER -> TRUE

\* str(n) for a natural n
RECURSIVE str_of_nat(_)
str_of_nat(n) == IF n < 10 THEN <<48 + n>> ELSE str_of_nat(n \div 10) \o <<48 + (n % 10)>>

\* str(value) on a cell; of a list only the brackets are kept
str_of(value) ==
    CASE value.t = "str" -> value.s
      [] value.t = "none" -> s_None
      [] value.t = "bool" -> IF value.n = 1 THEN s_True ELSE s_False
      [] value.t = "int" -> IF value.n < 0 THEN <<45>> \o str_of_nat(0 - value.n) ELSE str_of_nat(value.n)
      [] value.t = "float" ->
             (IF value.n < 0 THEN <<45>> \o str_of_nat(0 - value.n) ELSE str_of_nat(value.n)) \o <<46, 48>>
      [] value.t = "nan" -> s_nan
      [] OTHER -> s_list_repr

\* the table with distinct_ratio >= 0.95 for high_uniqueness
heuristic_tags_inclusive(name, distinct_ratio, null_ratio, most_frequent_ratio, non_null_count) ==
    (IF name \in {s_id, s_identifier} \/ EndsWith(name, s_suffix_id)
        THEN {s_likely_identifier} ELSE {})
    \cup (IF AtLeast(distinct_ratio, FloatDiv(95, 100)) /\ Below(null_ratio, FloatDiv(5, 100))
        THEN {s_high_uniqueness} ELSE {})
    \cup (IF Below(distinct_ratio, FloatDiv(15, 100)) /\ AtLeast(non_null_count, FloatOfInt(5))
        THEN {s_low_cardinality} ELSE {})
    \cup (IF Exceeds(most_frequent_ratio, FloatDiv(8, 10)) THEN {s_dominant_value} ELSE {})
    \cup (IF Exceeds(null_ratio, FloatDiv(4, 10)) THEN {s_sparse_values} ELSE {})

\* the table read as one if / elif chain: sparse_values only when
\* dominant_value did not fire
heuristic_tags_chained(name, distinct_ratio, null_ratio, most_frequent_ratio, non_null_count) ==
    (IF name \in {s_id, s_identifier} \/ EndsWith(name, s_suffix_id)
        THEN {s_likely_identifier} ELSE {})
    \cup (IF Exceeds(distinct_ratio, FloatDiv(95, 100)) /\ Below(null_ratio, FloatDiv(5, 100))
        THEN {s_high_uniqueness} ELSE {})
    \cup (IF Below(distinct_ratio, FloatDiv(15, 100)) /\ AtLeast(non_null_count, FloatOfInt(5))
        THEN {s_low_cardinality} ELSE {})
    \cup (IF Exceeds(most_frequent_ratio, FloatDiv(8, 10)) THEN {s_dominant_value}
          ELSE IF Exceeds(null_ratio, FloatDiv(4, 10)) THEN {s_sparse_values} ELSE {})

\* the five conditions of run_heuristics on the lowered name and the four floats
heuristic_tags(name, distinct_ratio, null_ratio, most_frequent_ratio, non_null_count) ==
    (IF name \in {s_id, s_identifier} \/ EndsWith(name, s_suffix_id)
        THEN {s_likely_identifier} ELSE {})
    \cup (IF Exceeds(distinct_ratio, FloatDiv(95, 100)) /\ Below(null_ratio, FloatDiv(5, 100))
        THEN {s_high_uniqueness} ELSE {})
    \cup (IF Below(distinct_ratio, FloatDiv(15, 100)) /\ AtLeast(non_null_count, FloatOfInt(5))
        THEN {s_low_cardinality} ELSE {})
    \cup (IF Exceeds(most_frequent_ratio, FloatDiv(8, 10)) THEN {s_dominant_value} ELSE {})
    \cup (IF Exceeds(null_ratio, FloatDiv(4, 10)) THEN {s_sparse_values} ELSE {})

\* run_heuristics(record): [raised, value].  The record is a dict whose "name"
\* is a cell and whose "summary" is a dict of floats and cells, or a cell.
run_heuristics(record) ==
    With(record, LAMBDA given_record :
        LET given == get_or(given_record, "summary", << >>)
            is_cell == "t" \in DOMAIN given
            summary == IF is_cell /\ ~truthy(given) THEN << >> ELSE given
            name == Lower(str_of(get_or(given_record, "name", StrV(s_empty))))
        IN  IF is_cell /\ truthy(given) THEN [raised |-> "AttributeError", value |-> {}]
            ELSE With(<<safe_ratio(summary, "distinct_ratio"), safe_ratio(summary, "null_ratio"),
                        safe_ratio(summary, "most_frequent_ratio"),
                        safe_ratio(summary, "non_null_count")>>,
                      LAMBDA ratios :
                          LET failed == {i \in 1..4 : ratios[i].raised # ""}
                          IN  IF failed # {}
                              THEN [raised |-> ratios[CHOOSE i \in failed : \A j \in failed : i <= j].raised,
                                    value |-> {}]
                              ELSE [raised |-> "",
                                    value |-> heuristic_tags(name, ratios[1].value, ratios[2].value,
                                                             ratios[3].value, ratios[4].value)]))

(* ---------------------------- FeatureManager ------------------------- *)
\* a < b on two strs
StrLess(a, b) ==
    \E i \in 1..Len(b) :
        /\ \A j \in 1..(i - 1) : j <= Len(a) /\ a[j] = b[j]
        /\ i = Len(a) + 1 \/ (i <= Len(a) /\ a[i] < b[i])

\* sorted(strings)
RECURSIVE Sorted(_)
Sorted(strings) ==
    IF strings = {} THEN <<>>
    ELSE LET least == CHOOSE x \in strings : \A y \in strings : y = x \/ StrLess(x, y)
         IN  <<least>> \o Sorted(strings \ {least})

\* the items of the records, record after record
RECURSIVE Items(_)
Items(records) == IF records = <<>> THEN <<>> ELSE Head(records) \o Items(Tail(records))

\* the report of a column whose tags leave the patterns out
column_report_heuristic_tags(column, items) ==
    LET OfColumn(item) == item.k = column
        IsStr(value) == value.t = "str"
        mine == SelectSeq(items, OfColumn)
    IN  With([i \in 1..Len(mine) |-> mine[i].v], LAMBDA values :
        With(unique_value_summary(values), LAMBDA summary :
            [summary |-> summary,
             patterns |-> detect_patterns(SelectSeq(values, IsStr)),
             tags |-> Sorted(run_heuristics([name |-> StrV(column), summary |-> summary,
                                             values |-> values]).value)]))

\* the report of a column on the items of the batch
column_report(column, items) ==
    LET OfColumn(item) == item.k = column
        IsStr(value) == value.t = "str"
        mine == SelectSeq(items, OfColumn)
    IN  With([i \in 1..Len(mine) |-> mine[i].v], LAMBDA values :
        With(unique_value_summary(values), LAMBDA summary :
        With(detect_patterns(SelectSeq(values, IsStr)), LAMBDA patterns :
            [summary |-> summary,
             patterns |-> patterns,
             tags |-> Sorted(run_heuristics([name |-> StrV(column), summary |-> summary,
                                             values |-> values]).value
                             \cup Range(patterns))])))

\* the records, each with None under every column of the batch that it lacks
pad_records(records) ==
    With(Items(records), LAMBDA items :
    With(Dedup([i \in 1..Len(items) |-> items[i].k], {}), LAMBDA column_order :
        [r \in 1..Len(records) |->
            LET Lacking(column) == \A j \in 1..Len(records[r]) : records[r][j].k # column
                lacking == SelectSeq(column_order, Lacking)
            IN  records[r] \o [i \in 1..Len(lacking) |-> [k |-> lacking[i], v |-> NoneV]]]))

\* evaluate with every column given a value, None where absent, for every record
evaluate_padded(records) ==
    IF records = <<>>
    THEN [row_count |-> 0, column_count |-> 0, schema_fingerprint |-> s_empty, columns |-> <<>>]
    ELSE With(Items(pad_records(records)), LAMBDA items :
         With(Dedup([i \in 1..Len(items) |-> items[i].k], {}), LAMBDA column_order :
             [row_count |-> Len(records),
              column_count |-> Len(column_order),
              schema_fingerprint |-> fingerprint(column_order),
              columns |-> [i \in 1..Len(column_order) |->
                              [name |-> column_order[i],
                               meta |-> column_report(column_order[i], items)]]]))

\* FeatureManager.evaluate: the profile; its "columns" dict is the sequence of
\* its items [name, meta] in insertion order
evaluate(records) ==
    IF records = <<>>
    THEN [row_count |-> 0, column_count |-> 0, schema_fingerprint |-> s_empty, columns |-> <<>>]
    ELSE With(Items(records), LAMBDA items :
         With(Dedup([i \in 1..Len(items) |-> items[i].k], {}), LAMBDA column_order :
             [row_count |-> Len(records),
              column_count |-> Len(column_order),
              schema_fingerprint |-> fingerprint(column_order),
              columns |-> [i \in 1..Len(column_order) |->
                              [name |-> column_order[i],
                               meta |-> column_report(column_order[i], items)]]]))

\* A FeatureManager has no attributes: its state is the empty mapping.
NewManager == << >>

\* evaluate as if column_values were kept on the instance between calls
manager_evaluate_keeping_columns(self, records) ==
    [self |-> self \o records, records |-> records, profile |-> evaluate(self \o records)]

\* a call of evaluate on an instance: the instance and the records after
\* the call, and the returned profile
manager_evaluate(self, records) ==
    [self |-> self, records |-> records, profile |-> evaluate(records)]

(* ------------------------------- Cleaner ----------------------------- *)
\* a float the code computed, x its value [kind, f]
DoubleV(x) == [t |-> "double", s |-> <<>>, n |-> 0, x |-> x]
\* the tuple (a, b)
TupleV(a, b) == [t |-> "tuple", s |-> <<>>, n |-> 0, items |-> <<a, b>>]

dict_has(row, key) == \E i \in 1..Len(row) : row[i].k = key

\* row[key] = value
dict_set(row, key, value) ==
    IF dict_has(row, key)
    THEN [i \in 1..Len(row) |-> IF row[i].k = key THEN [k |-> key, v |-> value] ELSE row[i]]
    ELSE Append(row, [k |-> key, v |-> value])

\* row.pop(key, None)
dict_pop(row, key) ==
    LET Other(item) == item.k # key
    IN  SelectSeq(row, Other)

\* a or b
py_or(a, b) == IF truthy(a) THEN a ELSE b

\* re.sub(r"\s+", " ", text)
RECURSIVE collapse_whitespace(_)
collapse_whitespace(text) ==
    IF text = <<>> THEN <<>>
    ELSE IF Head(text) \in Whitespace THEN <<32>> \o collapse_whitespace(LStrip(text))
    ELSE <<Head(text)>> \o collapse_whitespace(Tail(text))

\* the str a record is left with by clean_record: None when nothing is left
normalized_str(normalized) == IF normalized # <<>> THEN StrV(normalized) ELSE NoneV

\* clean_record on one value
clean_value(value) ==
    IF value.t = "str" THEN normalized_str(Strip(collapse_whitespace(value.s)))
    ELSE IF value.t = "nan" THEN NoneV
    ELSE value

\* the items of the dict clean_record builds
cleaned_items(record) ==
    [i \in 1..Len(record) |-> [k |-> record[i].k, v |-> clean_value(record[i].v)]]

\* The dict objects of the program are the elements of a heap, a sequence of
\* dicts; a reference is an index into it, and NoneRef is None.
NoneRef == 0

\* a new dict object: the heap afterwards and the reference to the object
new_dict(heap, row) == [heap |-> Append(heap, row), ref |-> Len(heap) + 1]

\* record or {}
or_empty(heap, ref) ==
    IF ref = NoneRef \/ heap[ref] = <<>> THEN new_dict(heap, <<>>)
    ELSE [heap |-> heap, ref |-> ref]

\* clean_record writing the cleaned values into the record it was given
clean_record_in_place(heap, ref) ==
    IF ref = NoneRef THEN new_dict(heap, <<>>)
    ELSE [heap |-> [heap EXCEPT ![ref] = cleaned_items(heap[ref])], ref |-> ref]

\* Cleaner.clean_record on a dict or None
clean_record(heap, ref) ==
    IF ref = NoneRef THEN new_dict(heap, <<>>)
    ELSE new_dict(heap, cleaned_items(heap[ref]))

\* the cell of a conversion that may have failed: None for the caught errors
caught_to_none(converted) ==
    IF converted.raised \in {"TypeError", "ValueError"} THEN [raised |-> "", value |-> NoneV]
    ELSE IF converted.raised # "" THEN [raised |-> converted.raised, value |-> NoneV]
    ELSE [raised |-> "", value |-> DoubleV(converted.value)]

\* Cleaner._to_float: [raised, value]
cleaner_to_float(v) == caught_to_none(to_float(v))

(* ---------------------------- the strategies ------------------------- *)
\* A strategy is [class, name]: the dataclass field name and the class whose
\* apply it runs.  An apply on the cleaned copy gives [raised, row].
Strategy(class, name) == [class |-> class, name |-> name]

returned_row(row) == [raised |-> "", row |-> row]
raised_in(error, row) == [raised |-> error, row |-> row]

\* GeoStrategy.apply after the two conversions
geo_fields(cleaned, latitude, longitude, name) ==
    With(latitude.t # "none" /\ longitude.t # "none", LAMBDA valid :
        dict_set(
            dict_set(
                dict_set(
                    dict_pop(dict_pop(dict_set(dict_set(cleaned, s_latitude, latitude),
                                               s_longitude, longitude), s_lat), s_lon),
                    s_has_valid_coordinates, BoolV(IF valid THEN 1 ELSE 0)),
                s_centroid, IF valid THEN TupleV(latitude, longitude) ELSE NoneV),
            s__strategy, StrV(name)))

geo_converted(cleaned, latitude, longitude, name) ==
    IF latitude.raised # "" THEN raised_in(latitude.raised, cleaned)
    ELSE IF longitude.raised # "" THEN raised_in(longitude.raised, cleaned)
    ELSE returned_row(geo_fields(cleaned, latitude.value, longitude.value, name))

\* GeoStrategy.apply on the cleaned copy
geo_apply(cleaned, name) ==
    geo_converted(cleaned,
                  cleaner_to_float(py_or(dict_get(cleaned, s_latitude), dict_get(cleaned, s_lat))),
                  cleaner_to_float(py_or(dict_get(cleaned, s_longitude), dict_get(cleaned, s_lon))),
                  name)

\* the parts of the address that are kept
address_keys ==
    <<s_address_building, s_address_street_name, s_secondary_address_street_name,
      s_address_city, s_address_state, s_zip_code>>

address_joined(cleaned, parts, name) ==
    IF \E i \in 1..Len(parts) : parts[i].t # "str" THEN raised_in("TypeError", cleaned)
    ELSE returned_row(
             dict_set(
                 dict_set(
                     dict_set(cleaned, s_full_address,
                              normalized_str(Join(<<32>>, [i \in 1..Len(parts) |-> parts[i].s]))),
                     s_has_coordinates,
                     BoolV(IF /\ dict_get(cleaned, s_latitude).t # "none"
                              /\ dict_get(cleaned, s_longitude).t # "none"
                           THEN 1 ELSE 0)),
                 s__strategy, StrV(name)))

\* AddressStrategy.apply on the cleaned copy
address_apply(cleaned, name) ==
    address_joined(cleaned,
                   SelectSeq([i \in 1..Len(address_keys) |-> dict_get(cleaned, address_keys[i])],
                             truthy),
                   name)

\* the text without the characters of `removed`
without_characters(text, removed) ==
    LET Kept(c) == c \notin removed
    IN  SelectSeq(text, Kept)

\* a number or None: [raised, none, x]
no_number == [raised |-> "", none |-> TRUE, x |-> Finite(FloatZero)]
number_of(converted) ==
    IF converted.raised = "ValueError" THEN no_number
    ELSE [raised |-> converted.raised, none |-> FALSE, x |-> converted.value]

\* _to_number of financial_strategy
financial_to_number(value) ==
    IF value.t = "none" THEN no_number
    ELSE IF value.t \in {"int", "float", "bool", "hundredths", "nan", "bigint"}
    THEN number_of(to_float(value))
    ELSE IF value.t = "str"
    THEN number_of(to_float(StrV(without_characters(value.s, {44, 36}))))
    ELSE no_number

\* _to_number of demographic_strategy
demographic_to_number(value) ==
    IF value.t = "none" THEN no_number
    ELSE IF value.t \in {"int", "float", "bool", "hundredths", "nan", "bigint"}
    THEN number_of(to_float(value))
    ELSE number_of(to_float(StrV(without_characters(str_of(value), {44}))))

\* x == 0 on a float
IsZero(x) == x.kind \in {"finite", "negative"} /\ x.f = FloatZero
IsNegative(x) == x.kind \in {"negative", "-inf"}
IsInfinite(x) == x.kind \in {"inf", "-inf"}

\* x + y on two floats
float_add(x, y) ==
    IF x.kind = "nan" \/ y.kind = "nan" THEN NotANumber
    ELSE IF IsInfinite(x) THEN (IF IsInfinite(y) /\ y.kind # x.kind THEN NotANumber ELSE x)
    ELSE IF IsInfinite(y) THEN y
    ELSE IF x.kind = y.kind THEN [kind |-> x.kind, f |-> FloatAdd(x.f, y.f)]
    ELSE IF x.f = y.f THEN Finite(FloatZero)
    ELSE IF FloatLess(x.f, y.f) THEN [kind |-> y.kind, f |-> FloatSub(y.f, x.f)]
    ELSE [kind |-> x.kind, f |-> FloatSub(x.f, y.f)]

\* x / y on two floats, y not zero
float_div(x, y) ==
    IF x.kind = "nan" \/ y.kind = "nan" \/ (IsInfinite(x) /\ IsInfinite(y)) THEN NotANumber
    ELSE IF IsInfinite(x) THEN SignedInf(IsNegative(x) # IsNegative(y))
    ELSE IF IsInfinite(y) \/ IsZero(x) THEN SignedFloat(IsNegative(x) # IsNegative(y), FloatZero)
    ELSE SignedFloat(IsNegative(x) # IsNegative(y), FloatQuotient(x.f, y.f))

\* sum(totals), starting from the int 0
RECURSIVE float_sum(_, _)
float_sum(start, totals) ==
    IF totals = <<>> THEN start
    ELSE With(float_add(start, Head(totals)), LAMBDA next : float_sum(next, Tail(totals)))

\* the numbers of the finance columns, in the order of the columns
finance_numbers(cleaned) ==
    LET Finance(item) == is_finance_key(item.k)
        columns == SelectSeq(cleaned, Finance)
    IN  [i \in 1..Len(columns) |-> financial_to_number(columns[i].v)]

financial_totalled(cleaned, numbers, name) ==
    LET Failed(number) == number.raised # ""
        Number(number) == ~number.none
        totals == SelectSeq(numbers, Number)
    IN  IF SelectSeq(numbers, Failed) # <<>>
        THEN raised_in(Head(SelectSeq(numbers, Failed)).raised, cleaned)
        ELSE With(float_sum(Finite(FloatZero), [i \in 1..Len(totals) |-> totals[i].x]),
                  LAMBDA total :
             returned_row(
                 dict_set(
                     dict_set(
                         dict_set(cleaned, s_financial_total,
                                  IF totals = <<>> THEN NoneV ELSE DoubleV(total)),
                         s_has_financial_red_flag,
                         BoolV(IF /\ totals # <<>>
                                  /\ ~IsZero(total)
                                  /\ Exceeds(total, FloatOfInt(1000000))
                               THEN 1 ELSE 0)),
                     s__strategy, StrV(name))))

\* FinancialStrategy.apply on the cleaned copy
financial_apply(cleaned, name) == financial_totalled(cleaned, finance_numbers(cleaned), name)

\* population / operand, or None
ratio_or_none(population, operand) ==
    IF ~population.none /\ ~operand.none /\ ~IsZero(operand.x)
    THEN DoubleV(float_div(population.x, operand.x))
    ELSE NoneV

demographic_converted(cleaned, population, households, area, name) ==
    IF population.raised # "" THEN raised_in(population.raised, cleaned)
    ELSE IF households.raised # "" THEN raised_in(households.raised, cleaned)
    ELSE IF area.raised # "" THEN raised_in(area.raised, cleaned)
    ELSE returned_row(
             dict_set(
                 dict_set(
                     dict_set(cleaned, s_population_density, ratio_or_none(population, area)),
                     s_average_household_size, ratio_or_none(population, households)),
                 s__strategy, StrV(name)))

\* DemographicStrategy.apply on the cleaned copy
demographic_apply(cleaned, name) ==
    demographic_converted(
        cleaned,
        demographic_to_number(dict_get(cleaned, s_population)),
        demographic_to_number(dict_get(cleaned, s_households)),
        demographic_to_number(py_or(py_or(dict_get(cleaned, s_area_sq_miles),
                                          dict_get(cleaned, s_area_sq_km)),
                                    dict_get(cleaned, s_land_area))),
        name)

\* sorted(row.items()) on a dict with str keys
sorted_items(row) ==
    With(Sorted({row[i].k : i \in 1..Len(row)}), LAMBDA keys :
        [i \in 1..Len(keys) |-> [k |-> keys[i], v |-> dict_get(row, keys[i])]])

\* hash(repr(items)): the hash of a str differs from process to process and
\* is held as the pair of the process's hash seed and the text hashed
HashV(seed, items) == [t |-> "hash", s |-> <<>>, n |-> seed, of |-> items]

generic_hashed(cleaned, seed) ==
    returned_row(dict_set(cleaned, s__record_hash, HashV(seed, sorted_items(cleaned))))

\* GenericStrategy.apply on the cleaned copy
generic_apply(cleaned, name, seed) ==
    generic_hashed(
        dict_set(IF dict_has(cleaned, s__notes) THEN cleaned
                 ELSE dict_set(cleaned, s__notes, ListV),
                 s__strategy, StrV(name)),
        seed)

\* the body of apply after clean_record, by the class of the strategy
enrich(strategy, cleaned, seed) ==
    CASE strategy.class = "GeoStrategy" -> geo_apply(cleaned, strategy.name)
      [] strategy.class = "AddressStrategy" -> address_apply(cleaned, strategy.name)
      [] strategy.class = "FinancialStrategy" -> financial_apply(cleaned, strategy.name)
      [] strategy.class = "DemographicStrategy" -> demographic_apply(cleaned, strategy.name)
      [] OTHER -> generic_apply(cleaned, strategy.name, seed)

\* strategy.apply(record): the heap afterwards, the exception raised or "",
\* and the reference returned
strategy_apply(strategy, heap, ref, seed) ==
    With(or_empty(heap, ref), LAMBDA given :
    With(clean_record(given.heap, given.ref), LAMBDA copy :
    With(enrich(strategy, copy.heap[copy.ref], seed), LAMBDA enriched :
        [heap |-> [copy.heap EXCEPT ![copy.ref] = enriched.row],
         raised |-> enriched.raised,
         ref |-> IF enriched.raised = "" THEN copy.ref ELSE NoneRef])))

\* StrategyRouter.__init__: the strategy instances by key
strategies ==
    << [k |-> s_address, v |-> Strategy("AddressStrategy", s_address)],
       [k |-> s_geo, v |-> Strategy("GeoStrategy", s_geo)],
       [k |-> s_financial, v |-> Strategy("FinancialStrategy", s_financial)],
       [k |-> s_demographic, v |-> Strategy("DemographicStrategy", s_demographic)],
       [k |-> s_generic, v |-> Strategy("GenericStrategy", s_generic)] >>

\* StrategyRouter.get_strategy
get_strategy(key) ==
    IF dict_has(strategies, key) THEN dict_get(strategies, key)
    ELSE dict_get(strategies, s_generic)

\* StrategyRouter.resolve
resolve(dataset_profile) == get_strategy(route(dataset_profile))

(* ----------------------- the classifier's operations ---------------- *)
\* a classifier call and what it returned
Ret(op, arg, auto_fit, value, raised) ==
    [op |-> op, arg |-> arg, auto_fit |-> auto_fit, value |-> value, raised |-> raised]

\* the caller holds no returned value
NoCall == Ret("none", <<>>, FALSE, <<>>, FALSE)

\* the classifier as Pipeline.__init__ constructs it, not yet used
IdleClassifier ==
    /\ clf = NewClassifier(DEFAULT_THRESHOLD)
    /\ disk = <<>>
    /\ ret = NoCall

NoPureCall == call = [fn |-> "none", arg |-> <<>>] /\ result = Pending

InitClassifier ==
    /\ NoPureCall
    /\ clf \in {NewClassifier(threshold) : threshold \in Thresholds}
    /\ disk = <<>>
    /\ ret = NoCall

\* The code is single-threaded: the caller makes its next call once it is done
\* with what the previous one returned.
Discard ==
    /\ ret # NoCall
    /\ ret' = NoCall
    /\ UNCHANGED <<clf, disk, call, result>>

ConstructOp(threshold) ==
    /\ ret = NoCall
    /\ clf' = NewClassifier(threshold)
    /\ ret' = Ret("construct", <<>>, FALSE, <<>>, FALSE)
    /\ UNCHANGED <<disk, call, result>>

FitOp(records) ==
    /\ ret = NoCall
    /\ \E trained \in Boosters :
        /\ clf' = fit(clf, records, trained)
        /\ ret' = Ret("fit", records, FALSE, <<>>, FALSE)
        /\ UNCHANGED <<disk, call, result>>

PredictProbaOp(records) ==
    /\ ret = NoCall
    /\ ret' = Ret("predict_proba", records, FALSE, predict_proba(clf, records), FALSE)
    /\ UNCHANGED <<clf, disk, call, result>>

PredictDropOp(records, auto_fit) ==
    /\ ret = NoCall
    /\ \E trained \in Boosters :
        LET r == predict_drop(clf, records, auto_fit, trained)
        IN  /\ clf' = r.self
            /\ ret' = Ret("predict_drop", records, auto_fit, r.value, FALSE)
            /\ UNCHANGED <<disk, call, result>>

FilterRecordsOp(records, auto_fit) ==
    /\ ret = NoCall
    /\ \E trained \in Boosters :
        LET r == filter_records(clf, records, auto_fit, trained)
        IN  /\ clf' = r.self
            /\ ret' = Ret("filter_records", records, auto_fit, r.value, FALSE)
            /\ UNCHANGED <<disk, call, result>>

SaveOp ==
    /\ ret = NoCall
    /\ disk' = <<save(clf)>>
    /\ ret' = Ret("save", <<>>, FALSE, <<>>, FALSE)
    /\ UNCHANGED <<clf, call, result>>

\* RowDropClassifier.load(path): the caller holds the result unless load raised
LoadOp(metadata) ==
    /\ ret = NoCall
    /\ LET r == load(metadata)
       IN  /\ ret' = Ret("load", metadata, FALSE, <<>>, r.raised)
           /\ clf' = IF r.raised THEN clf ELSE r.classifier
           /\ UNCHANGED <<disk, call, result>>

Construct == \E threshold \in Thresholds : ConstructOp(threshold)
Fit == \E records \in Batches : FitOp(records)
PredictProba == \E records \in Batches : PredictProbaOp(records)
PredictDrop == \E records \in Batches, auto_fit \in BOOLEAN : PredictDropOp(records, auto_fit)
FilterRecords == \E records \in Batches, auto_fit \in BOOLEAN : FilterRecordsOp(records, auto_fit)
Save == SaveOp
Load == \E metadata \in Range(disk) \cup ForeignPayloads : LoadOp(metadata)

\* construct, fit, save, load on the instance the caller holds
NextPersist == Construct \/ Fit \/ Save \/ Load \/ Discard
SpecPersist == InitClassifier /\ [][NextPersist]_vars

\* fit and the three prediction calls on one instance
NextPredict == Fit \/ PredictProba \/ PredictDrop \/ FilterRecords \/ Discard
SpecPredict == InitClassifier /\ [][NextPredict]_vars

(* ----------------------- the router's inputs ------------------------- *)
MaxColumns == 2

RouterNames ==
    {s_latitude, s_longitude, s_Latitude, s_zip_code, s_fine_amount, s_coffee, s_price,
     s_balance, s_population, s_name}

RouterMetas ==
    { [tags |-> <<>>],
      [tags |-> <<s_GEO>>, patterns |-> <<>>],
      [tags |-> <<s_state_code>>, patterns |-> <<s_state_code>>] }

RouterColumns == [name : RouterNames, meta : RouterMetas]

\* columns of a profile: a dict, so no name occurs twice
ColumnLists(n) ==
    {cols \in [1..n -> RouterColumns] :
        \A i, j \in 1..n : i # j => cols[i].name # cols[j].name}

NoneProfile == [none |-> TRUE]

RouterProfiles ==
    {NoneProfile} \cup
    {[columns |-> cols] : cols \in UNION {ColumnLists(n) : n \in 0..MaxColumns}}

InitRouter ==
    /\ call \in {[fn |-> "route", arg |-> p] : p \in RouterProfiles}
    /\ result = Pending
    /\ IdleClassifier

RouteCall ==
    /\ call.fn = "route"
    /\ ~result.done
    /\ result' = [done |-> TRUE, value |-> route(call.arg)]
    /\ UNCHANGED <<call, clfvars>>

NextRouter == RouteCall

SpecRouter == InitRouter /\ [][NextRouter]_vars

(* ------------------- the feature-detection inputs -------------------- *)
MaxValues == 22
MaxMixed == 2

\* None, NaN, 1, 1.0, True, 2, "NA", "1", []
SummaryValues ==
    {NoneV, NaNV, IntV(1), FloatV(1), BoolV(1), IntV(2), StrV(s_NA), StrV(<<49>>), ListV}

Repeat(value, n) == [i \in 1..n |-> value]
Distinct(n) == [i \in 1..n |-> IntV(i)]

\* [1, 1, 2, None, "NA"]
ScenarioValues == <<IntV(1), IntV(1), IntV(2), NoneV, StrV(s_NA)>>

\* every short list over SummaryValues, and longer lists of k missing values
\* followed by equal values or by pairwise different values
SummaryInputs ==
    UNION {[1..n -> SummaryValues] : n \in 0..MaxMixed}
    \cup {ScenarioValues}
    \cup UNION {UNION {{Repeat(NoneV, k) \o Repeat(IntV(1), n - k),
                         Repeat(NaNV, k) \o Distinct(n - k)} : k \in 0..n} :
                 n \in 1..MaxValues}

MaxStrings == 5

\* "12345", "12345-6789", " 10001 ", "bad", "NY", "2024-01-31", "a@b.co",
\* "+1 (555) 12.34", "  ", and the int 12345
PatternValues ==
    <<StrV(s_zip5), StrV(s_zip9), StrV(s_padded_zip), StrV(s_bad), StrV(s_NY), StrV(s_date),
      StrV(s_mail), StrV(s_tel), StrV(s_blank), IntV(12345)>>

\* the lists of up to MaxStrings of these values, one list for each multiset
PatternInputs ==
    UNION {{[i \in 1..n |-> PatternValues[f[i]]] :
               f \in {g \in [1..n -> 1..Len(PatternValues)] :
                          \A i \in 1..(n - 1) : g[i] <= g[i + 1]}} :
           n \in 0..MaxStrings}

MaxNames == 3
s_name_city == s_name \o s_separator \o s_city   \* "name||city"
FingerprintInputs == UNION {[1..n -> {s_name, s_city, s_name_city}] : n \in 0..MaxNames}

MaxRows == 2
EvalRows ==
    { <<>>,
      << [k |-> s_order_id, v |-> IntV(1)], [k |-> s_zip_code, v |-> StrV(s_zip5)] >>,
      << [k |-> s_zip_code, v |-> StrV(s_zip9)], [k |-> s_order_id, v |-> IntV(2)] >>,
      << [k |-> s_order_id, v |-> IntV(1)], [k |-> s_state, v |-> StrV(s_NY)] >>,
      << [k |-> s_zip_code, v |-> NoneV] >>,
      << [k |-> s_state, v |-> StrV(s_bad)], [k |-> s_zip_code, v |-> StrV(s_padded_zip)] >> }
EvalBatches == UNION {[1..n -> EvalRows] : n \in 0..MaxRows}

MaxForeign == 1

\* the names "id", "ID", "identifier", "order_id", "Order_ID", "city", None and 5
HeuristicNames ==
    {StrV(s_id), StrV(s_ID), StrV(s_identifier), StrV(s_order_id), StrV(s_Order_ID),
     StrV(s_city), NoneV, IntV(5)}

\* summaries of four numbers on and around the thresholds of the table
RatioGrid ==
    [distinct_ratio : {HundredthsV(h) : h \in {10, 15, 95, 96, 100}},
     null_ratio : {HundredthsV(h) : h \in {0, 5, 40, 41}},
     most_frequent_ratio : {HundredthsV(h) : h \in {80, 81}},
     non_null_count : {IntV(4), IntV(5)}]

\* {"distinct_ratio": 1.0, "null_ratio": 0.0, "most_frequent_ratio": 0.1, "non_null_count": 10}
ScenarioSummary ==
    [distinct_ratio |-> HundredthsV(100), null_ratio |-> HundredthsV(0),
     most_frequent_ratio |-> HundredthsV(10), non_null_count |-> IntV(10)]

\* {"distinct_ratio": 0.1, "null_ratio": 0.5, "most_frequent_ratio": 0.9, "non_null_count": 6}
SparseSummary ==
    [distinct_ratio |-> HundredthsV(10), null_ratio |-> HundredthsV(50),
     most_frequent_ratio |-> HundredthsV(90), non_null_count |-> IntV(6)]

\* None, NaN, 10**400, [], "bad", " 0.97 ", -1 and True
ForeignEntries ==
    {NoneV, NaNV, BigIntV, ListV, StrV(s_bad), StrV(s_ratio_text), IntV(0 - 1), BoolV(1)}

\* the summary with the entries of `keys` left out, or replaced by foreign ones
ForeignSummaries(summary) ==
    UNION {{[k \in DOMAIN summary \ keys |-> summary[k]]}
           \cup {[k \in DOMAIN summary |-> IF k \in keys THEN foreign[k] ELSE summary[k]] :
                    foreign \in [keys -> ForeignEntries]} :
           keys \in {some \in SUBSET DOMAIN summary : Cardinality(some) <= MaxForeign}}

\* records with a name and a summary of numbers; records whose summary has
\* up to MaxForeign foreign or absent entries; records whose summary is not a
\* dict; records without a summary or without a name
HeuristicInputs ==
    {[name |-> name, summary |-> summary] : name \in HeuristicNames, summary \in RatioGrid}
    \cup {[name |-> StrV(s_id), summary |-> summary] :
              summary \in ForeignSummaries(ScenarioSummary) \cup ForeignSummaries(SparseSummary)}
    \cup {[name |-> StrV(s_id), summary |-> given] :
              given \in {NoneV, StrV(s_empty), StrV(s_bad), IntV(0), IntV(1), ListV}}
    \cup {[name |-> name] : name \in HeuristicNames}
    \cup {[summary |-> summary] : summary \in RatioGrid}
    \cup {<< >>}

(* ------------------- the feature-detection calls --------------------- *)
PureInit(fn, inputs) ==
    /\ call \in {[fn |-> fn, arg |-> input] : input \in inputs}
    /\ result = Pending
    /\ IdleClassifier

Return(fn, value) ==
    /\ call.fn = fn
    /\ ~result.done
    /\ result' = [done |-> TRUE, value |-> value]
    /\ UNCHANGED <<call, clfvars>>

SummaryCall == Return("unique_value_summary", unique_value_summary(call.arg))
PatternsCall == Return("detect_patterns", detect_patterns(call.arg))
FingerprintCall == Return("fingerprint", fingerprint(call.arg))
EvaluateCall == Return("evaluate", evaluate(call.arg))

InitSummary == PureInit("unique_value_summary", SummaryInputs)
SpecSummary == InitSummary /\ [][SummaryCall]_vars

InitPatterns == PureInit("detect_patterns", PatternInputs)
SpecPatterns == InitPatterns /\ [][PatternsCall]_vars

InitHeuristics == PureInit("run_heuristics", HeuristicInputs)
HeuristicsCall == Return("run_heuristics", run_heuristics(call.arg))
SpecHeuristics == InitHeuristics /\ [][HeuristicsCall]_vars

\* one component at a time: a call of a feature-detection function, or fit and
\* predict_proba on a classifier
\* A caller holds two FeatureManager instances and a batch and calls evaluate
\* on the batch again and again, with calls on other batches in between:
\* call is [fn, given, arg, managers, last, interleaved] with given the batch
\* as it was first passed, arg the same list object now, last the instance of
\* the latest call and interleaved whether another batch has been evaluated;
\* result.value lists the profiles returned for the batch.
MaxCalls == 3
ManagerRows ==
    { <<>>,
      << [k |-> s_order_id, v |-> IntV(1)], [k |-> s_zip_code, v |-> StrV(s_zip5)] >>,
      << [k |-> s_zip_code, v |-> StrV(s_zip9)], [k |-> s_order_id, v |-> IntV(2)] >>,
      << [k |-> s_state, v |-> StrV(s_bad)], [k |-> s_zip_code, v |-> NoneV] >> }
ManagerBatches == UNION {[1..n -> ManagerRows] : n \in 0..2}
OtherBatches ==
    { << << [k |-> s_state, v |-> StrV(s_NY)] >> >>,
      << << [k |-> s_zip_code, v |-> StrV(s_zip5)] >>, << [k |-> s_order_id, v |-> IntV(2)] >> >> }

InitManager ==
    /\ call \in {[fn |-> "FeatureManager.evaluate", given |-> records, arg |-> records,
                  managers |-> <<NewManager, NewManager>>, last |-> 0, interleaved |-> FALSE] :
                     records \in ManagerBatches}
    /\ result = [done |-> FALSE, value |-> <<>>]
    /\ IdleClassifier

ManagerEvaluate ==
    /\ call.fn = "FeatureManager.evaluate"
    /\ Len(result.value) < MaxCalls
    /\ \E instance \in 1..2 :
           \E after \in {manager_evaluate(call.managers[instance], call.arg)} :
               /\ call' = [call EXCEPT !.managers[instance] = after.self,
                                       !.arg = after.records,
                                       !.last = instance]
               /\ result' = [done |-> TRUE, value |-> Append(result.value, after.profile)]
    /\ UNCHANGED clfvars

ManagerEvaluateOther ==
    /\ call.fn = "FeatureManager.evaluate"
    /\ ~call.interleaved
    /\ \E instance \in 1..2 : \E records \in OtherBatches :
           \E after \in {manager_evaluate(call.managers[instance], records)} :
               call' = [call EXCEPT !.managers[instance] = after.self,
                                    !.last = instance,
                                    !.interleaved = TRUE]
    /\ UNCHANGED <<result, clfvars>>

NextManager == ManagerEvaluate \/ ManagerEvaluateOther
SpecManager == InitManager /\ [][NextManager]_vars

\* the records the strategies are applied to
StrategyRecords ==
    { << [k |-> s_lat, v |-> StrV(s_40_71)], [k |-> s_lon, v |-> StrV(s_minus_73_99)] >>,
      << [k |-> s_latitude, v |-> FloatV(0)], [k |-> s_longitude, v |-> StrV(s_minus_73_99)] >>,
      << [k |-> s_latitude, v |-> StrV(s_bad)], [k |-> s_lat, v |-> StrV(s_5)],
         [k |-> s_lon, v |-> IntV(7)] >>,
      << [k |-> s_latitude, v |-> BigIntV], [k |-> s_longitude, v |-> IntV(1)] >>,
      << [k |-> s_latitude, v |-> HundredthsV(4071)], [k |-> s_lat, v |-> IntV(1)],
         [k |-> s_longitude, v |-> StrV(s_nan)] >>,
      << [k |-> s_name, v |-> StrV(s_spaced_name)], [k |-> s_city, v |-> NaNV],
         [k |-> s_state, v |-> StrV(s_blank)] >>,
      << [k |-> s_amount, v |-> StrV(s_1_500_000)], [k |-> s_fine_amount, v |-> IntV(5)],
         [k |-> s_name, v |-> StrV(s_Acme)] >>,
      << [k |-> s_population, v |-> StrV(s_1_000)], [k |-> s_households, v |-> IntV(250)],
         [k |-> s_area_sq_miles, v |-> IntV(0)], [k |-> s_land_area, v |-> IntV(8)] >>,
      << [k |-> s_address_building, v |-> StrV(s_12)],
         [k |-> s_address_street_name, v |-> StrV(s_main_st)],
         [k |-> s_zip_code, v |-> IntV(10001)] >>,
      << [k |-> s_address_city, v |-> StrV(s_NY)], [k |-> s_zip_code, v |-> StrV(s_10001)],
         [k |-> s_latitude, v |-> IntV(40)], [k |-> s_longitude, v |-> IntV(0 - 73)] >>,
      << [k |-> s__notes, v |-> StrV(s_NY)], [k |-> s_lat, v |-> NoneV] >>,
      << [k |-> s_fine_amount, v |-> StrV(s_100_50)], [k |-> s_payment_due, v |-> IntV(50)],
         [k |-> s_notes, v |-> StrV(s_n_a)] >>,
      << [k |-> s_amount, v |-> StrV(s_dollar_1_000_000)], [k |-> s_zip_code, v |-> IntV(10001)] >>,
      << [k |-> s_amount, v |-> StrV(s_dollar_1_000_000)], [k |-> s_fee, v |-> StrV(s_n_a)],
         [k |-> s_tax, v |-> BoolV(1)], [k |-> s_households, v |-> IntV(2000000)] >>,
      << [k |-> s_revenue, v |-> IntV(0 - 5)], [k |-> s_cost, v |-> IntV(5)],
         [k |-> s_price, v |-> NaNV] >>,
      << [k |-> s_balance, v |-> StrV(s_bad)], [k |-> s_population, v |-> StrV(s_1000)],
         [k |-> s_households, v |-> StrV(s_0)], [k |-> s_area_sq_km, v |-> StrV(s_bad)] >>,
      << [k |-> s_population, v |-> StrV(s_1000)], [k |-> s_households, v |-> IntV(200)],
         [k |-> s_area_sq_miles, v |-> IntV(2)] >>,
      << [k |-> s_population, v |-> BigIntV], [k |-> s_households, v |-> IntV(2)] >>,
      << [k |-> s_households, v |-> IntV(3)], [k |-> s_land_area, v |-> IntV(2)] >>,
      << >> }

\* the hash seeds of the processes
HashSeeds == {1, 2}

\* a caller holds a strategy and a record (or None) and calls apply: call is
\* [fn, strategy, seed, heap, arg, given] with heap the dict objects, arg the
\* reference passed and given the record as it was when it was passed;
\* result.value is [raised, ref], the reference returned.
ApplyInputs ==
    {[fn |-> "apply", strategy |-> strategies[i].v, seed |-> seed,
      heap |-> <<record>>, arg |-> 1, given |-> record] :
         i \in 1..Len(strategies), seed \in HashSeeds, record \in StrategyRecords}
    \cup {[fn |-> "apply", strategy |-> strategies[i].v, seed |-> seed,
           heap |-> <<>>, arg |-> NoneRef, given |-> <<>>] :
              i \in 1..Len(strategies), seed \in HashSeeds}

InitStrategies ==
    /\ call \in ApplyInputs
    /\ result = Pending
    /\ IdleClassifier

ApplyCall ==
    /\ call.fn = "apply"
    /\ ~result.done
    /\ \E after \in {strategy_apply(call.strategy, call.heap, call.arg, call.seed)} :
           /\ call' = [call EXCEPT !.heap = after.heap]
           /\ result' = [done |-> TRUE,
                         value |-> [raised |-> after.raised, ref |-> after.ref]]
    /\ UNCHANGED clfvars

SpecStrategies == InitStrategies /\ [][ApplyCall]_vars

InitComponents ==
    \/ InitSummary
    \/ InitPatterns
    \/ PureInit("fingerprint", FingerprintInputs)
    \/ PureInit("evaluate", EvalBatches)
    \/ InitClassifier

NextComponents ==
    \/ SummaryCall
    \/ PatternsCall
    \/ FingerprintCall
    \/ EvaluateCall
    \/ (call.fn = "none" /\ Fit)
    \/ (call.fn = "none" /\ PredictProba)
    \/ (call.fn = "none" /\ Discard)

SpecComponents == InitComponents /\ [][NextComponents]_vars

(* ------------------------------ Pipeline ----------------------------- *)
\* Pipeline.run on one dataset, from the records of df.to_dict to the call of
\* the ontology formatter.  The records are objects of the heap; a list of
\* records is a list of references.
PipelineSteps == <<"filter", "profile", "route", "apply", "export">>

\* the rows a list of references points to
rows_of(heap, refs) == [i \in 1..Len(refs) |-> heap[refs[i]]]

\* sum(drop_mask)
dropped_count(drop_mask) == Cardinality({i \in 1..Len(drop_mask) : drop_mask[i]})

\* the records the mask flags: the complement of the list run keeps
kept_records_flagged(records, drop_mask) ==
    SelectIndexed(records, [i \in 1..Len(drop_mask) |-> ~drop_mask[i]], 1)

\* [record for record, keep in zip(records, keep_mask) if keep], with
\* keep_mask = [not flag for flag in drop_mask]
kept_records(records, drop_mask) == SelectIndexed(records, drop_mask, 1)

\* the row filtering of run: the classifier afterwards, the mask and the
\* records that go on
run_filter(self, heap, records, trained) ==
    IF records = <<>> THEN [self |-> self, drop_mask |-> <<>>, records |-> records]
    ELSE With(fit(self, rows_of(heap, records), trained), LAMBDA fitted :
         With(predict_drop(fitted, rows_of(heap, records), FALSE, trained), LAMBDA r :
             [self |-> r.self,
              drop_mask |-> r.value,
              records |-> IF dropped_count(r.value) > 0
                          THEN kept_records(records, r.value)
                          ELSE records]))

\* [strategy.apply(record) for record in records]: the heap afterwards, the
\* exception that ended the comprehension or "", and the references collected
RECURSIVE apply_each(_, _, _, _, _)
apply_each(strategy, heap, records, seed, i) ==
    IF i > Len(records) THEN [heap |-> heap, raised |-> "", refs |-> <<>>]
    ELSE With(strategy_apply(strategy, heap, records[i], seed), LAMBDA first :
         IF first.raised # "" THEN [heap |-> first.heap, raised |-> first.raised, refs |-> <<>>]
         ELSE With(apply_each(strategy, first.heap, records, seed, i + 1), LAMBDA rest :
              [heap |-> rest.heap, raised |-> rest.raised,
               refs |-> IF rest.raised = "" THEN <<first.ref>> \o rest.refs ELSE <<>>]))

NoProfile == << >>
NoStrategy == Strategy("none", s_empty)

\* the locals of run once the records of a dataset are loaded
RunLoaded(records, seed) ==
    [fn |-> "run", pc |-> "loaded", steps |-> <<>>, seed |-> seed,
     given |-> records, heap |-> records,
     records |-> [i \in 1..Len(records) |-> i], drop_mask |-> <<>>,
     features |-> NoProfile, strategy |-> NoStrategy, resolved |-> 0,
     enriched_records |-> <<>>, formatted |-> <<>>]

\* {"latitude": "40.71", "longitude": "-73.99"}
PlaceRecord ==
    << [k |-> s_latitude, v |-> StrV(s_40_71)],
       [k |-> s_longitude, v |-> StrV(s_minus_73_99)] >>

\* {"address_street_name": "Main  St", "city": "NY", "zip_code": 10001}
StreetRecord ==
    << [k |-> s_address_street_name, v |-> StrV(s_main_st)],
       [k |-> s_city, v |-> StrV(s_NY)],
       [k |-> s_zip_code, v |-> IntV(10001)] >>

\* the datasets run is given: up to MaxDataset records
MaxDataset == 2
PipelineRecords == {AcmeRecord, SparseRecord, PlaceRecord}
PipelineBatches ==
    UNION {[1..n -> PipelineRecords] : n \in 0..MaxDataset}
        \cup {<<FullRecord>>, <<StreetRecord>>, <<StreetRecord, SparseRecord>>}

InitPipeline ==
    /\ call \in {RunLoaded(records, seed) : records \in PipelineBatches, seed \in HashSeeds}
    /\ result = Pending
    /\ IdleClassifier

\* pipeline.py 65-73: fit, predict_drop and the removal of the flagged rows
RunFilter ==
    /\ call.fn = "run"
    /\ call.pc = "loaded"
    /\ \E trained \in Boosters :
       \E after \in {run_filter(clf, call.heap, call.records, trained)} :
           /\ clf' = after.self
           /\ call' = [call EXCEPT !.pc = "filtered",
                                   !.steps = Append(@, "filter"),
                                   !.drop_mask = after.drop_mask,
                                   !.records = after.records]
    /\ UNCHANGED <<result, disk, ret>>

\* pipeline.py 75: features = self.feature_manager.evaluate(records)
RunProfile ==
    /\ call.fn = "run"
    /\ call.pc = "filtered"
    /\ call' = [call EXCEPT !.pc = "profiled",
                            !.steps = Append(@, "profile"),
                            !.features = evaluate(rows_of(call.heap, call.records))]
    /\ UNCHANGED <<result, clf, disk, ret>>

\* pipeline.py 76: strategy = self.router.resolve(features)
RunRoute ==
    /\ call.fn = "run"
    /\ call.pc = "profiled"
    /\ call' = [call EXCEPT !.pc = "routed",
                            !.steps = Append(@, "route"),
                            !.strategy = resolve(call.features),
                            !.resolved = @ + 1]
    /\ UNCHANGED <<result, clf, disk, ret>>

\* pipeline.py 77: enriched_records = [strategy.apply(record) for record in
\* records]; an exception leaves run as a RuntimeError (pipeline.py 94-95)
RunApply ==
    /\ call.fn = "run"
    /\ call.pc = "routed"
    /\ \E after \in {apply_each(call.strategy, call.heap, call.records, call.seed, 1)} :
           IF after.raised # ""
           THEN /\ call' = [call EXCEPT !.pc = "raised", !.heap = after.heap]
                /\ result' = [done |-> TRUE, value |-> "RuntimeError"]
           ELSE /\ call' = [call EXCEPT !.pc = "applied",
                                        !.steps = Append(@, "apply"),
                                        !.heap = after.heap,
                                        !.enriched_records = after.refs]
                /\ UNCHANGED result
    /\ UNCHANGED <<clf, disk, ret>>

\* pipeline.py 82-90: format_ontology_records(records, ...) and the exports of
\* what it returns
RunExport ==
    /\ call.fn = "run"
    /\ call.pc = "applied"
    /\ call' = [call EXCEPT !.pc = "exported",
                            !.steps = Append(@, "export"),
                            !.formatted = call.records]
    /\ result' = [done |-> TRUE, value |-> "exported"]
    /\ UNCHANGED <<clf, disk, ret>>

NextPipeline == RunFilter \/ RunProfile \/ RunRoute \/ RunApply \/ RunExport
SpecPipeline == InitPipeline /\ [][NextPipeline]_vars

(* --------------------- the pseudo-labels' inputs --------------------- *)
\* the essential field names in a fixed order
EssentialOrder ==
    <<s_license_number, s_business_name, s_street_address, s_city, s_state, s_zip_code,
      s_latitude, s_longitude, s_phone, s_address_city, s_dca_license_number,
      s_provider_record_id, s_canonical_legal_entity_name, s_address_state,
      s_contact_phone_number, s_phone_number>>

\* A record with `populated` essential fields, of which the first `shorts`
\* hold a two-letter text, the next `zeros` the number 0 and the others a
\* longer text, followed by `nones` other fields that hold None and `blanks`
\* other fields that hold "".
ShapedRecord(populated, shorts, zeros, nones, blanks) ==
    [i \in 1..populated |->
        [k |-> EssentialOrder[i],
         v |-> IF i <= shorts THEN StrV(s_NY)
               ELSE IF i <= shorts + zeros THEN IntV(0)
               ELSE StrV(s_Acme)]]
    \o [i \in 1..nones |-> [k |-> <<110, 48 + i>>, v |-> NoneV]]
    \o [i \in 1..blanks |-> [k |-> <<98, 48 + i>>, v |-> StrV(s_empty)]]

\* records on either side of each comparison of _pseudo_labels
ShapedRecords ==
    { ShapedRecord(16, 0, 0, 0, 0),
      ShapedRecord(16, 0, 0, 13, 0), ShapedRecord(16, 0, 0, 14, 0),
      ShapedRecord(16, 0, 0, 0, 8), ShapedRecord(16, 0, 0, 0, 9),
      ShapedRecord(16, 4, 0, 8, 0), ShapedRecord(16, 9, 0, 9, 0),
      ShapedRecord(16, 0, 8, 0, 0), ShapedRecord(16, 0, 9, 0, 0),
      ShapedRecord(10, 0, 0, 0, 0), ShapedRecord(9, 0, 0, 0, 0),
      ShapedRecord(11, 0, 0, 2, 0), ShapedRecord(11, 0, 0, 3, 0),
      ShapedRecord(12, 0, 0, 3, 0), ShapedRecord(0, 0, 0, 0, 0) }

\* the batches fit is given: up to MaxShaped records
MaxShaped == 2
ShapedBatches == UNION {[1..n -> ShapedRecords] : n \in 1..MaxShaped}

\* fit on a batch by a classifier that has not been used
FitShaped == \E records \in ShapedBatches : FitOp(records)

SpecLabels == InitClassifier /\ [][FitShaped]_vars

(* ---------------------- the feature-extraction calls ------------------ *)
s_two_spaces == <<32, 32>>  \* "  "
s_padded_a == <<32, 97, 9>>  \* " a\t"

\* the values a cell of a record may hold
FeatureValues ==
    {NoneV, NaNV, BoolV(1), BoolV(0), IntV(0), IntV(5), FloatV(0), HundredthsV(50),
     StrV(s_empty), StrV(s_two_spaces), StrV(s_NY), StrV(s_padded_a), StrV(s_Acme), ListV}

\* the keys of a record, in order: two of them are essential field names
FeatureKeyOrder == <<s_city, s_name, s_phone, s_amount>>

MaxFields == 2

\* the records of at most MaxFields fields over FeatureValues
FieldRecords ==
    UNION {{[i \in 1..n |-> [k |-> FeatureKeyOrder[i], v |-> values[i]]] :
               values \in [1..n -> FeatureValues]} : n \in 0..MaxFields}

FeatureInputs == FieldRecords \cup ShapedRecords \cup {NoRecord, FullRecord}

InitFeatures == PureInit("compute_features", FeatureInputs)
FeaturesCall == Return("compute_features", compute_features(call.arg))
SpecFeatures == InitFeatures /\ [][FeaturesCall]_vars

(* ------------------ calls from two threads at once ------------------- *)
\* Two threads each make one call, fit or predict_proba, on one of two
\* RowDropClassifier instances.  A step of a thread is one read or one write
\* of an attribute of the instance; what a thread computes between two such
\* accesses is local to it.  call is [fn, init, objs, threads]: the instances
\* as they were, the instances now, and the two threads, each
\* [op, on, records, pc, i, means, scales, value, raised].

\* a thread that always works on the first instance, whatever it was called on
self_of_first(thread) == 1

\* the instance a thread's call is bound to
self_of(thread) == thread.on

NewThread(op, on, records) ==
    [op |-> op, on |-> on, records |-> records, pc |-> "called", i |-> 1,
     means |-> <<>>, scales |-> <<>>, value |-> <<>>, raised |-> "none"]

\* one attribute access of fit (77-109, with _recompute_feature_stats 181-190):
\* the instance and the thread afterwards
fit_step(self, thread, trained) ==
    LET features == features_of(thread.records)
        stats == FitCache[thread.records].stats
        labels == FitCache[thread.records].labels
        key == FEATURE_KEYS[thread.i]
    IN  IF thread.pc = "called" /\ features = <<>>
        THEN [self |-> [self EXCEPT !.feature_means = DEFAULT_MEANS],
              thread |-> [thread EXCEPT !.pc = "default_scales"]]
        ELSE IF thread.pc = "default_scales"
        THEN [self |-> [self EXCEPT !.feature_scales = DEFAULT_SCALES],
              thread |-> [thread EXCEPT !.pc = "default_type"]]
        ELSE IF thread.pc = "default_type"
        THEN [self |-> [self EXCEPT !.model_type = "heuristic"],
              thread |-> [thread EXCEPT !.pc = "default_booster"]]
        ELSE IF thread.pc = "default_booster"
        THEN [self |-> [self EXCEPT !.booster = NoBooster],
              thread |-> [thread EXCEPT !.pc = "returned"]]
        ELSE IF thread.pc = "called"
        THEN [self |-> [self EXCEPT !.feature_means = <<>>],
              thread |-> [thread EXCEPT !.pc = "clear_scales"]]
        ELSE IF thread.pc = "clear_scales"
        THEN [self |-> [self EXCEPT !.feature_scales = <<>>],
              thread |-> [thread EXCEPT !.pc = "mean"]]
        ELSE IF thread.pc = "mean"
        THEN [self |-> [self EXCEPT !.feature_means =
                            (key :> stats.feature_means[key]) @@ self.feature_means],
              thread |-> [thread EXCEPT !.pc = "scale"]]
        ELSE IF thread.pc = "scale"
        THEN [self |-> [self EXCEPT !.feature_scales =
                            (key :> stats.feature_scales[key]) @@ self.feature_scales],
              thread |-> IF thread.i < Len(FEATURE_KEYS)
                         THEN [thread EXCEPT !.pc = "mean", !.i = thread.i + 1]
                         ELSE [thread EXCEPT !.pc = "booster"]]
        ELSE IF thread.pc = "booster"
        THEN [self |-> [self EXCEPT !.booster =
                            IF xgb_available /\ Cardinality(Range(labels)) > 1
                            THEN trained ELSE NoBooster],
              thread |-> [thread EXCEPT !.pc = "type"]]
        ELSE [self |-> [self EXCEPT !.model_type =
                            IF xgb_available /\ Cardinality(Range(labels)) > 1
                            THEN "xgboost" ELSE "heuristic"],
              thread |-> [thread EXCEPT !.pc = "returned"]]

\* one attribute access of predict_proba (111-122, with _heuristic_probability
\* and _standardize 210-222): the thread afterwards.  The means and scales the
\* thread has read are kept in thread.means and thread.scales.
predict_step(self, thread) ==
    LET features == features_of(thread.records)
        key == FEATURE_KEYS[thread.i]
        seen == [feature_means |-> thread.means,
                 feature_scales |->
                     (key :> get_or(self.feature_scales, key, DEFAULT_SCALES[key]))
                         @@ thread.scales]
    IN  IF thread.pc = "called" /\ features = <<>>
        THEN [thread EXCEPT !.pc = "returned", !.value = <<>>]
        ELSE IF thread.pc = "called"
        THEN [thread EXCEPT !.pc = IF self.model_type = "xgboost" /\ xgb_available
                                   THEN "booster_test" ELSE "mean"]
        ELSE IF thread.pc = "booster_test"
        THEN [thread EXCEPT !.pc = IF self.booster # NoBooster
                                   THEN "booster_call" ELSE "mean"]
        ELSE IF thread.pc = "booster_call"
        THEN IF self.booster = NoBooster
             THEN [thread EXCEPT !.pc = "returned", !.raised = "AttributeError"]
             ELSE [thread EXCEPT !.pc = "returned",
                                 !.value = [r \in 1..Len(features) |->
                                               booster_predict(self.booster, features[r])]]
        ELSE IF thread.pc = "mean"
        THEN [thread EXCEPT !.pc = "scale",
                            !.means = (key :> get_or(self.feature_means, key,
                                                     DEFAULT_MEANS[key])) @@ thread.means]
        ELSE IF thread.i < Len(FEATURE_KEYS)
        THEN [thread EXCEPT !.pc = "mean", !.i = thread.i + 1,
                            !.scales = seen.feature_scales]
        ELSE [thread EXCEPT !.pc = "returned", !.scales = seen.feature_scales,
                            !.value = <<heuristic_probability(seen, features[1])>>]

\* the batches the threads pass: predict_proba is called on one record at most
ThreadBatches == {<<>>, <<SparseRecord>>, <<FullRecord>>}
FitBatches == ThreadBatches \cup {<<FullRecord, SparseRecord>>, <<AcmeRecord, AcmeRecord>>}

\* an instance is fresh or was fitted before the threads start
EarlierInstances ==
    {NewClassifier(DEFAULT_THRESHOLD)}
        \cup {fit(NewClassifier(DEFAULT_THRESHOLD), <<FullRecord, SparseRecord>>, trained) :
                 trained \in Boosters}

ThreadCalls ==
    {NewThread("fit", on, records) : on \in 1..2, records \in FitBatches}
        \cup {NewThread("predict_proba", on, records) : on \in 1..2, records \in ThreadBatches}

InitThreads ==
    /\ \E first \in EarlierInstances, a \in FitBatches, b \in ThreadCalls :
           call = [fn |-> "threads",
                   init |-> <<first, NewClassifier(DEFAULT_THRESHOLD)>>,
                   objs |-> <<first, NewClassifier(DEFAULT_THRESHOLD)>>,
                   threads |-> <<NewThread("fit", 1, a), b>>]
    /\ result = Pending
    /\ IdleClassifier

FitStep ==
    /\ call.fn = "threads"
    /\ \E t \in 1..2, trained \in Boosters :
         /\ call.threads[t].op = "fit"
         /\ call.threads[t].pc # "returned"
         /\ (call.threads[t].pc # "booster" => trained = CHOOSE b \in Boosters : TRUE)
         /\ \E after \in {fit_step(call.objs[self_of(call.threads[t])],
                                   call.threads[t], trained)} :
              call' = [call EXCEPT !.objs[self_of(call.threads[t])] = after.self,
                                   !.threads[t] = after.thread]
    /\ UNCHANGED <<result, clfvars>>

PredictStep ==
    /\ call.fn = "threads"
    /\ \E t \in 1..2 :
         /\ call.threads[t].op = "predict_proba"
         /\ call.threads[t].pc # "returned"
         /\ call' = [call EXCEPT !.threads[t] =
                         predict_step(call.objs[self_of(call.threads[t])], call.threads[t])]
    /\ UNCHANGED <<result, clfvars>>

NextThreads == FitStep \/ PredictStep
SpecThreads == InitThreads /\ [][NextThreads]_vars

(* ------------------- a session of every operation -------------------- *)
\* the batches of a session: none, one labelled drop, one labelled keep, and
\* one of each (the batch an ensemble is trained on)
SessionBatches == {<<>>, <<SparseRecord>>, <<FullRecord>>, <<FullRecord, SparseRecord>>}

SessionFit == \E records \in SessionBatches : FitOp(records)
SessionPredictProba == \E records \in SessionBatches : PredictProbaOp(records)
SessionPredictDrop ==
    \E records \in SessionBatches, auto_fit \in BOOLEAN : PredictDropOp(records, auto_fit)
SessionFilterRecords ==
    \E records \in SessionBatches, auto_fit \in BOOLEAN : FilterRecordsOp(records, auto_fit)

\* construction and any sequence of fit, load, save, predict_proba,
\* predict_drop and filter_records on the instance the caller holds
NextSession ==
    \/ Construct
    \/ SessionFit
    \/ Save
    \/ Load
    \/ SessionPredictProba
    \/ SessionPredictDrop
    \/ SessionFilterRecords
    \/ Discard
SpecSession == InitClassifier /\ [][NextSession]_vars

(* ---------------- fit on an instance that was used before ------------ *)
\* {"name": "Acme", "amount": 100, "city": "Acme", "state": None, "phone": 5551234}
PartRecord ==
    << [k |-> s_name, v |-> StrV(s_Acme)], [k |-> s_amount, v |-> IntV(100)],
       [k |-> s_city, v |-> StrV(s_Acme)], [k |-> s_state, v |-> NoneV],
       [k |-> s_phone, v |-> IntV(5551234)] >>

MaxCopies == 3

\* a dataset of equal rows, two to MaxCopies of them; no rows; rows of both labels
RefitBatches ==
    {Repeat(record, n) : record \in {PartRecord, AcmeRecord}, n \in 2..MaxCopies}
        \cup {<<>>, <<FullRecord, SparseRecord>>}

RefitFit == \E records \in RefitBatches : FitOp(records)

\* construct, save, load and fit, so that fit finds the instance fresh, fitted
\* on another batch, or loaded
NextRefit == Construct \/ RefitFit \/ Save \/ Load \/ Discard
SpecRefit == InitClassifier /\ [][NextRefit]_vars

(* ---------------- records that lack essential fields ----------------- *)
\* A record with `populated` essential fields that hold a text, `hollow`
\* further essential fields that are present and hold None, NaN or "" in
\* turn, and `others` fields under other names that hold a number.
EssentialRecord(populated, hollow, others) ==
    [i \in 1..populated |-> [k |-> EssentialOrder[i], v |-> StrV(s_Acme)]]
    \o [i \in 1..hollow |->
           [k |-> EssentialOrder[populated + i],
            v |-> IF i % 3 = 1 THEN NoneV ELSE IF i % 3 = 2 THEN NaNV ELSE StrV(s_empty)]]
    \o [i \in 1..others |-> [k |-> <<111, 48 + i>>, v |-> IntV(100)]]

\* records with nine populated essentials or fewer, and two with ten
EssentialRecords ==
    { EssentialRecord(9, 0, 0), EssentialRecord(9, 7, 20), EssentialRecord(9, 0, 20),
      EssentialRecord(0, 0, 0), EssentialRecord(0, 3, 20), EssentialRecord(5, 11, 0),
      EssentialRecord(10, 0, 0), EssentialRecord(10, 6, 20) }

MaxSparse == 2
EssentialBatches == UNION {[1..n -> EssentialRecords] : n \in 1..MaxSparse}

FitEssential == \E records \in EssentialBatches : FitOp(records)
SpecEssentials == InitClassifier /\ [][FitEssential]_vars

(* ------------------------- claims on the router ---------------------- *)
\* the lower-cased column names and the lower-cased tags and patterns of a profile
NamesOf(p) == {Lower(c.name) : c \in Range(profile_columns(p))}
TagsOf(p) ==
    UNION {{Lower(x) : x \in Range(meta_get(c.meta, "tags")) \cup Range(meta_get(c.meta, "patterns"))} :
           c \in Range(profile_columns(p))}

GeoCondition(p) ==
    (\E n \in NamesOf(p) : n \in geo_columns) \/ s_geo \in TagsOf(p)
AddressCondition(p) ==
    (\E n \in NamesOf(p) : n \in address_tokens) \/ s_zip_code \in TagsOf(p)
        \/ s_state_code \in TagsOf(p)
DemographicCondition(p) == \E n \in NamesOf(p) : n \in demographic_tokens

Keys == {s_geo, s_address, s_financial, s_demographic, s_generic}

ColumnsNamed(names) == [columns |-> [i \in 1..Len(names) |-> [name |-> names[i], meta |-> [tags |-> <<>>]]]]

\* C1: route returns exactly one of the five keys for every profile (a None
\* profile and a profile without columns included), namely the first of geo,
\* address, financial, demographic whose condition holds on the lower-cased
\* names and the aggregated tags and patterns, and generic when none holds;
\* {latitude, longitude} gives geo, {population} demographic, {name} generic.
C1_RoutePriority ==
    (call.fn = "route" /\ result.done) =>
        LET p == call.arg
            key == result.value
        IN  /\ key \in Keys
            /\ key = s_geo <=> GeoCondition(p)
            /\ key = s_address <=> ~GeoCondition(p) /\ AddressCondition(p)
            /\ key = s_financial <=>
                   ~GeoCondition(p) /\ ~AddressCondition(p) /\ looks_financial(NamesOf(p))
            /\ key = s_demographic <=>
                   /\ ~GeoCondition(p) /\ ~AddressCondition(p)
                   /\ ~looks_financial(NamesOf(p)) /\ DemographicCondition(p)
            /\ p \in {NoneProfile, [columns |-> <<>>]} => key = s_generic
            /\ p = ColumnsNamed(<<s_latitude, s_longitude>>) => key = s_geo
            /\ p = ColumnsNamed(<<s_population>>) => key = s_demographic
            /\ p = ColumnsNamed(<<s_name>>) => key = s_generic

\* a profile that satisfies both the geo and the address condition was routed
C1_Witness ==
    /\ call.fn = "route" /\ result.done
    /\ GeoCondition(call.arg) /\ AddressCondition(call.arg)
    /\ result.value = s_geo

\* the nine finance substrings of the specification
NineFinanceTokens ==
    {s_amount, s_revenue, s_fine, s_fee, s_tax, s_payment, s_cost, s_price, s_balance}

\* C2: a profile that matches neither the geo nor the address condition is
\* routed to financial whenever some column name contains one of the nine
\* finance substrings, and the names the router treats as financial are the
\* names whose values FinancialStrategy sums.
C2_NineTokensRouteFinancial ==
    (call.fn = "route" /\ result.done) =>
        LET p == call.arg
        IN  /\ ( /\ ~GeoCondition(p) /\ ~AddressCondition(p)
                 /\ \E n \in NamesOf(p) : \E token \in NineFinanceTokens : Contains(n, token) )
               => result.value = s_financial
            /\ \A n \in NamesOf(p) : looks_financial({n}) <=> is_finance_key(n)

(* ----------------------- claims on the classifier -------------------- *)
\* the indices of mask that are false, and the j-th smallest element of a set
KeptIndices(mask) == {i \in 1..Len(mask) : ~mask[i]}
RECURSIVE NthOf(_, _)
NthOf(S, j) ==
    LET least == CHOOSE x \in S : \A y \in S : x <= y
    IN  IF j = 1 THEN least ELSE NthOf(S \ {least}, j - 1)

\* kept is the subsequence of records at the false entries of mask, in order
IsKeptOf(kept, records, mask) ==
    /\ Len(kept) = Cardinality(KeptIndices(mask))
    /\ \A j \in 1..Len(kept) : kept[j] = records[NthOf(KeptIndices(mask), j)]

\* the drop probabilities of records thresholded by the classifier's threshold
DropMaskOf(self, records) ==
    LET probabilities == predict_proba(self, records)
    IN  [i \in 1..Len(records) |-> probabilities[i] >= self.threshold]

C5_BoundaryWitness ==
    /\ ret.op = "predict_drop"
    /\ \E i \in 1..Len(ret.arg) :
          predict_proba(clf, ret.arg)[i] = clf.threshold /\ ret.value[i]

\* the mean and the scale of one feature over the rows of a batch: the
\* population standard deviation, or the default scale when that is zero
BatchMean(batch, key) ==
    SumSeq([i \in 1..Len(batch) |-> compute_features(batch[i])[key]]) \div Len(batch)
BatchScale(batch, key) ==
    LET deviation(i) == compute_features(batch[i])[key] - BatchMean(batch, key)
        spread == Sqrt(SumSeq([i \in 1..Len(batch) |-> deviation(i) * deviation(i)])
                        \div Len(batch))
    IN  IF spread = 0 THEN DEFAULT_SCALES[key] ELSE spread
HasStatsOf(self, batch) ==
    \A key \in Range(FEATURE_KEYS) :
        /\ self.feature_means[key] = BatchMean(batch, key)
        /\ self.feature_scales[key] = BatchScale(batch, key)

\* bias + sum over the five features of weight * (x - mean) / scale
LinearScore(self, record) ==
    LET x == compute_features(record)
        part(k) ==
            LET key == FEATURE_KEYS[k]
            IN  (HEURISTIC_WEIGHTS[key]
                    * (((x[key] - self.feature_means[key]) * Unit) \div self.feature_scales[key]))
                \div 10
    IN  HEURISTIC_BIAS + SumSeq([k \in 1..Len(FEATURE_KEYS) |-> part(k)])

\* the batch of the row-classifier scenario
ScenarioBatch == <<AcmeRecord, SparseRecord>>

\* C6: fit on a non-empty batch recomputes the means and scales from that
\* batch; in heuristic mode a record is dropped iff sigmoid(bias + sum of
\* weight * (x - mean) / scale) >= threshold; for the batch [Acme row, sparse
\* row] with threshold 0.5, fit leaves heuristic mode, predict_drop without
\* refitting gives [false, true] and filter_records keeps the Acme row and
\* counts one dropped.
C6_HeuristicDropRule ==
    /\ (ret.op = "fit" /\ ret.arg # <<>>) => HasStatsOf(clf, ret.arg)
    /\ (ret.op \in {"predict_drop", "filter_records"} /\ ret.auto_fit /\ ret.arg # <<>>)
           => HasStatsOf(clf, ret.arg)
    /\ (ret.op = "predict_drop" /\ clf.model_type = "heuristic") =>
           \A i \in 1..Len(ret.arg) :
               ret.value[i] <=> sigmoid(LinearScore(clf, ret.arg[i])) >= clf.threshold
    /\ (ret.op = "fit" /\ ret.arg = ScenarioBatch) => clf.model_type = "heuristic"
    /\ ( /\ ret.arg = ScenarioBatch /\ clf.threshold = Hundredths(50)
         /\ clf.model_type = "heuristic" /\ HasStatsOf(clf, ScenarioBatch) ) =>
           /\ ret.op = "predict_drop" => ret.value = <<FALSE, TRUE>>
           /\ ret.op = "filter_records" =>
                  ret.value = [kept |-> <<AcmeRecord>>, dropped |-> 1]

\* the scenario: predict_drop(auto_fit=False) on the batch the classifier was
\* fitted on, threshold 0.5, returned [false, true]
C6_Witness ==
    /\ ret.op = "predict_drop" /\ ~ret.auto_fit
    /\ ret.arg = ScenarioBatch /\ clf.threshold = Hundredths(50)
    /\ clf.model_type = "heuristic" /\ HasStatsOf(clf, ScenarioBatch)
    /\ ret.value = <<FALSE, TRUE>>

(* ----------------------- claims on persistence ----------------------- *)
\* the payload declares the trained model type
DeclaresTrained(metadata) == get_or(metadata, "model_type", "heuristic") = "xgboost"
\* the payload's ensemble is missing or null
BoosterMissing(metadata) == get_or(metadata, "booster", NullBlob) = NullBlob

\* C3: load raises whenever the payload declares the trained model type but
\* its booster entry is missing or null (or the tree runtime is unavailable);
\* it never returns a classifier downgraded to heuristic mode in that case.
C3_LoadRejectsMissingBooster ==
    ( /\ ret.op = "load"
      /\ DeclaresTrained(ret.arg)
      /\ BoosterMissing(ret.arg) \/ ~xgb_available ) =>
        ret.raised

\* the values model_type takes in a classifier and in a saved payload
ModelTypes == {"heuristic", "xgboost"}

C7_SaveLoadRoundTrip ==
    ret.op = "save" =>
        LET loaded == load(disk[1])
            restored == loaded.classifier
        IN  /\ ~loaded.raised
            /\ restored.threshold = clf.threshold
            /\ restored.feature_means = clf.feature_means
            /\ restored.feature_scales = clf.feature_scales
            /\ restored.model_type = clf.model_type
            /\ \A records \in Batches :
                   /\ Len(predict_proba(restored, records)) = Len(predict_proba(clf, records))
                   /\ DropMaskOf(restored, records) = DropMaskOf(clf, records)

\* a classifier that fit left in trained mode, with statistics of its batch,
\* was saved
C7_Witness ==
    /\ ret.op = "save"
    /\ clf.model_type = "xgboost" /\ clf.booster \in Boosters
    /\ clf.feature_means # DEFAULT_MEANS
    /\ disk[1].booster = b64encode(clf.booster)

(* -------------------- claims on feature detection -------------------- *)
\* Python equality of two non-missing values: numbers by value whatever their
\* type, everything else by type and content
SameValue(a, b) ==
    IF a.t \in {"int", "float", "bool"} /\ b.t \in {"int", "float", "bool"} THEN a.n = b.n
    ELSE a = b

MissingCount(values) == Cardinality({i \in 1..Len(values) : values[i].t \in {"none", "nan"}})

\* the number of different non-missing values: the first occurrences
DistinctCount(values) ==
    Cardinality({i \in 1..Len(values) :
        /\ values[i].t \notin {"none", "nan"}
        /\ \A j \in 1..(i - 1) : ~SameValue(values[j], values[i])})

\* the number of occurrences of the most frequent non-missing value
MostFrequentCount(values) ==
    LET times(i) == Cardinality({j \in 1..Len(values) : SameValue(values[j], values[i])})
        present == {i \in 1..Len(values) : values[i].t \notin {"none", "nan"}}
    IN  IF present = {} THEN 0
        ELSE times(CHOOSE i \in present : \A j \in present : times(j) <= times(i))

SummaryReturned == call.fn = "unique_value_summary" /\ result.done /\ call.arg # <<>>

\* C8: for every non-empty value list, null_ratio is the float quotient of
\* the number of missing values (None or NaN) by total_count, distinct_ratio
\* that of distinct_count and most_frequent_ratio that of the count of the
\* most frequent value, all over the same total_count; non_null_count plus
\* the number of missing values is total_count; distinct_ratio + null_ratio
\* <= 1, missing values never counting as distinct; a ratio times total_count
\* gives the count back exactly for lists of fewer than 22 values.
C8_SummaryRatios ==
    SummaryReturned =>
        LET values == call.arg
            total == Len(values)
            summary == result.value
        IN  /\ summary.total_count = FloatOfInt(total)
            /\ summary.null_ratio = FloatDiv(MissingCount(values), total)
            /\ summary.distinct_count = FloatOfInt(DistinctCount(values))
            /\ summary.distinct_ratio = FloatDiv(DistinctCount(values), total)
            /\ summary.most_frequent_ratio = FloatDiv(MostFrequentCount(values), total)
            /\ summary.non_null_count = FloatOfInt(total - MissingCount(values))
            /\ DistinctCount(values) + MissingCount(values) <= total
            /\ ~FloatLess(FloatOfInt(1), FloatAdd(summary.distinct_ratio, summary.null_ratio))
            /\ total < 22 =>
                   /\ FloatTimesInt(summary.null_ratio, total) = FloatOfInt(MissingCount(values))
                   /\ FloatTimesInt(summary.distinct_ratio, total) = summary.distinct_count

\* a list of 22 values, 15 of them missing, was summarised, and null_ratio
\* times total_count is not 15
C8_Witness ==
    /\ SummaryReturned
    /\ Len(call.arg) = 22 /\ MissingCount(call.arg) = 15
    /\ result.value.null_ratio = FloatDiv(15, 22)
    /\ FloatTimesInt(result.value.null_ratio, 22) # FloatOfInt(15)

\* C8 as stated: null_ratio * total_count equals the number of missing values
\* and distinct_ratio * total_count equals distinct_count, for every
\* non-empty list
C8_ExactProducts ==
    SummaryReturned =>
        LET total == Len(call.arg)
            summary == result.value
        IN  /\ FloatTimesInt(summary.null_ratio, total) = FloatOfInt(MissingCount(call.arg))
            /\ FloatTimesInt(summary.distinct_ratio, total) = summary.distinct_count
            /\ summary.non_null_count = FloatOfInt(total - MissingCount(call.arg))
            /\ ~FloatLess(FloatOfInt(1), FloatAdd(summary.distinct_ratio, summary.null_ratio))

\* the profile of an empty batch
EmptyProfile ==
    [row_count |-> 0, column_count |-> 0, schema_fingerprint |-> s_empty, columns |-> <<>>]

\* the summary of an empty list
ZeroSummary ==
    [total_count |-> FloatZero, non_null_count |-> FloatZero, distinct_count |-> FloatZero,
     distinct_ratio |-> FloatZero, null_ratio |-> FloatZero, most_frequent_ratio |-> FloatZero]

\* C9: an empty input is no error anywhere: unique_value_summary([]) is the
\* all-zero summary, detect_patterns([]) is [], fingerprint([]) is "",
\* evaluate([]) is the profile with no rows, no columns and fingerprint "",
\* predict_proba([]) is [], and fit([]) returns leaving a heuristic
\* classifier with the default means and scales that predicts every batch.
C9_EmptyInputs ==
    /\ (result.done /\ call.arg = <<>>) =>
           /\ call.fn = "unique_value_summary" => result.value = ZeroSummary
           /\ call.fn = "detect_patterns" => result.value = <<>>
           /\ call.fn = "fingerprint" => result.value = s_empty
           /\ call.fn = "evaluate" => result.value = EmptyProfile
    /\ (call.fn = "fingerprint" /\ result.done) => (result.value = s_empty <=> call.arg = <<>>)
    /\ (ret.op = "predict_proba" /\ ret.arg = <<>>) => (~ret.raised /\ ret.value = <<>>)
    /\ (ret.op = "fit" /\ ret.arg = <<>>) =>
           /\ ~ret.raised
           /\ clf.model_type = "heuristic" /\ clf.booster = NoBooster
           /\ clf.feature_means = DEFAULT_MEANS /\ clf.feature_scales = DEFAULT_SCALES
           /\ \A records \in Batches : Len(predict_proba(clf, records)) = Len(records)

\* fingerprint([]) returned
C9_Witness == call.fn = "fingerprint" /\ call.arg = <<>> /\ result.done /\ result.value = s_empty

\* the trimmed strings of a list of values, and how many of them match a pattern
Trimmed(values) ==
    LET IsStr(value) == value.t = "str"
        strings == SelectSeq(values, IsStr)
    IN  [i \in 1..Len(strings) |-> Strip(strings[i].s)]
MatchCount(name, values) ==
    Cardinality({i \in 1..Len(Trimmed(values)) : fullmatch(name, Trimmed(values)[i])})

\* C10: detect_patterns reports a pattern iff the trimmed strings that fully
\* match it, divided by all trimmed strings (blank ones included), are at
\* least 0.8; 4 matches of zip_code among 5 strings report it, 3 among 5 do
\* not; each of the five patterns is decided on its own, and the names come
\* in the order zip_code, state_code, iso_date, email, phone.
C10_PatternThreshold ==
    (call.fn = "detect_patterns" /\ result.done) =>
        LET values == call.arg
            total == Len(Trimmed(values))
            reported == Range(result.value)
        IN  /\ reported \subseteq Range(PATTERNS)
            /\ \A name \in Range(PATTERNS) :
                   name \in reported <=> (total > 0 /\ 10 * MatchCount(name, values) >= 8 * total)
            /\ (total = 5 /\ MatchCount(s_zip_code, values) = 4) => s_zip_code \in reported
            /\ (total = 5 /\ MatchCount(s_zip_code, values) = 3) => s_zip_code \notin reported
            /\ result.value = SelectSeq(PATTERNS, LAMBDA name : name \in reported)

\* four of five strings, one of them blank, matched zip_code, which was
\* reported together with phone
C10_Witness ==
    /\ call.fn = "detect_patterns" /\ result.done
    /\ Len(Trimmed(call.arg)) = 5 /\ MatchCount(s_zip_code, call.arg) = 4
    /\ \E i \in 1..5 : Trimmed(call.arg)[i] = <<>>
    /\ s_zip_code \in Range(result.value) /\ s_phone \in Range(result.value)

(* -------------------- claims on the heuristics engine ---------------- *)
HeuristicsReturned == call.fn = "run_heuristics" /\ result.done

HeuristicTags ==
    {s_likely_identifier, s_high_uniqueness, s_low_cardinality, s_dominant_value, s_sparse_values}

\* the summary of the call is a dict of four numbers written in hundredths or
\* as naturals
NumberSummary(record) ==
    /\ "summary" \in DOMAIN record
    /\ DOMAIN record.summary =
           {"distinct_ratio", "null_ratio", "most_frequent_ratio", "non_null_count"}
    /\ \A k \in DOMAIN record.summary :
           record.summary[k].t \in {"hundredths", "int"} /\ record.summary[k].n >= 0

\* the number of hundredths a number of the summary stands for
HundredthsOf(value) == IF value.t = "int" THEN 100 * value.n ELSE value.n

IsIdentifierName(text) == text \in {s_id, s_identifier} \/ EndsWith(text, s_suffix_id)

\* the tags whose condition of the table holds, decided on the decimal numbers
TableTags(identifier, summary) ==
    LET distinct_ratio == HundredthsOf(summary.distinct_ratio)
        null_ratio == HundredthsOf(summary.null_ratio)
        most_frequent_ratio == HundredthsOf(summary.most_frequent_ratio)
        non_null_count == HundredthsOf(summary.non_null_count)
    IN  {tag \in HeuristicTags :
            \/ tag = s_likely_identifier /\ identifier
            \/ tag = s_high_uniqueness /\ distinct_ratio > 95 /\ null_ratio < 5
            \/ tag = s_low_cardinality /\ distinct_ratio < 15 /\ non_null_count >= 500
            \/ tag = s_dominant_value /\ most_frequent_ratio > 80
            \/ tag = s_sparse_values /\ null_ratio > 40}

\* the name of the record as run_heuristics reads it: str(name), "" when absent
NameText(record) == IF "name" \in DOMAIN record THEN str_of(record.name) ELSE s_empty

\* C11 (amended): on a summary of numbers run_heuristics returns exactly the
\* tags whose table condition holds: likely_identifier iff the name, converted
\* to a str and lowercased, is "id" or "identifier" or ends with "_id";
\* high_uniqueness iff distinct_ratio > 0.95 and null_ratio < 0.05;
\* low_cardinality iff distinct_ratio < 0.15 and non_null_count >= 5;
\* dominant_value iff most_frequent_ratio > 0.8; sparse_values iff
\* null_ratio > 0.4; the column "id" with distinct_ratio 1.0 and null_ratio
\* 0.0 gets both likely_identifier and high_uniqueness.
C11_TableTags ==
    (HeuristicsReturned /\ NumberSummary(call.arg)) =>
        /\ result.value.raised = ""
        /\ result.value.value =
               TableTags(IsIdentifierName(Lower(NameText(call.arg))), call.arg.summary)
        /\ (call.arg = [name |-> StrV(s_id), summary |-> ScenarioSummary]) =>
               {s_likely_identifier, s_high_uniqueness} \subseteq result.value.value

\* the column "id" of the scenario got likely_identifier and high_uniqueness
C11_Witness ==
    /\ HeuristicsReturned
    /\ call.arg = [name |-> StrV(s_id), summary |-> ScenarioSummary]
    /\ result.value = [raised |-> "", value |-> {s_likely_identifier, s_high_uniqueness}]

\* C11 as stated: likely_identifier iff the name itself is "id" or
\* "identifier" or ends with "_id"
C11_NameAsGiven ==
    (HeuristicsReturned /\ NumberSummary(call.arg)) =>
        /\ result.value.raised = ""
        /\ result.value.value =
               TableTags("name" \in DOMAIN call.arg /\ call.arg.name.t = "str"
                             /\ IsIdentifierName(call.arg.name.s),
                         call.arg.summary)

\* the tag sets in which high_uniqueness comes with neither low_cardinality
\* nor sparse_values
CompatibleTagSets ==
    {tags \in SUBSET HeuristicTags :
        s_high_uniqueness \in tags => tags \cap {s_low_cardinality, s_sparse_values} = {}}

\* the tag sets run_heuristics returns on the inputs
ReturnedTagSets ==
    {run_heuristics(input).value : input \in {i \in HeuristicInputs : run_heuristics(i).raised = ""}}

\* C12 (amended): the tag sets run_heuristics returns are exactly the subsets
\* of the five tags in which high_uniqueness comes with neither
\* low_cardinality nor sparse_values: each of these 20 subsets is returned
\* for some input, and no other subset is ever returned.
C12_CompatibleSubsets ==
    /\ ReturnedTagSets = CompatibleTagSets
    /\ (HeuristicsReturned /\ result.value.raised = "") => result.value.value \in CompatibleTagSets

\* four tags at once: every tag but high_uniqueness
C12_Witness ==
    /\ HeuristicsReturned
    /\ result.value.value = HeuristicTags \ {s_high_uniqueness}

\* C12 as stated: every subset of the five tags is returned for some input
C12_AnySubset ==
    HeuristicsReturned => \A tags \in SUBSET HeuristicTags : tags \in ReturnedTagSets

\* the record C13 says run_heuristics reads: 0.0 for every summary entry that
\* is None, a list, a str that is no number, or an int float() cannot hold;
\* an empty summary and an empty name for a missing or null one
CoercedEntry(value) ==
    IF value.t \in {"none", "list", "bigint"} \/ (value.t = "str" /\ ~float_of_str(value.s).ok)
    THEN HundredthsV(0) ELSE value
Coerced(record) ==
    LET given == get_or(record, "summary", NoneV)
        name == get_or(record, "name", NoneV)
    IN  [name |-> IF name.t = "none" THEN StrV(s_empty) ELSE name,
         summary |-> IF "t" \in DOMAIN given
                     THEN (IF given.t = "none" THEN << >> ELSE given)
                     ELSE [k \in DOMAIN given |-> CoercedEntry(given[k])]]

\* C13: run_heuristics never raises, and returns the tags of the record in
\* which every summary entry that is missing, null or not convertible to a
\* float is 0.0 and a missing or null summary or name is empty.
C13_NeverRaises ==
    HeuristicsReturned =>
        /\ result.value.raised = ""
        /\ result.value.value = run_heuristics(Coerced(call.arg)).value

(* ------------------------ claims on the fingerprint ------------------ *)
\* the elements of a list that occur at no earlier position, in their order
FirstOccurrences(names) ==
    LET IsFirst(i) == \A j \in 1..(i - 1) : names[j] # names[i]
        firsts == {i \in 1..Len(names) : IsFirst(i)}
        Place(i) == Cardinality({j \in firsts : j <= i})
    IN  [n \in 1..Cardinality(firsts) |-> names[CHOOSE i \in firsts : Place(i) = n]]

\* the characters 0-9 and a-f
HexCharacters == (48..57) \cup (97..102)

FingerprintReturned == call.fn = "fingerprint" /\ result.done

EvaluateReturned == call.fn = "evaluate" /\ result.done

\* the column names of a batch, item after item of record after record
BatchKeys(records) == [i \in 1..Len(Items(records)) |-> Items(records)[i].k]

\* the values a batch holds under a column, in the order of the records
BatchValues(records, column) ==
    LET OfColumn(item) == item.k = column
        mine == SelectSeq(Items(records), OfColumn)
    IN  [i \in 1..Len(mine) |-> mine[i].v]

\* a list of strs in strictly ascending order
Ascending(strings) == \A i \in 1..(Len(strings) - 1) : StrLess(strings[i], strings[i + 1])

\* the tags of a report are the sorted union of the heuristic tags of the
\* column and the names of its detected patterns
TagsAreSortedUnion(records, entry) ==
    LET IsStr(value) == value.t = "str"
        values == BatchValues(records, entry.name)
        heuristic == run_heuristics([name |-> StrV(entry.name), values |-> values,
                                     summary |-> unique_value_summary(values)]).value
    IN  /\ entry.meta.patterns = detect_patterns(SelectSeq(values, IsStr))
        /\ Range(entry.meta.tags) = heuristic \cup Range(entry.meta.patterns)
        /\ Ascending(entry.meta.tags)

\* C15: for a batch that is not empty, evaluate counts the records and the
\* distinct column names, keys the columns in the order in which the names
\* are first seen, fingerprints that order, and gives each column the sorted
\* union of its heuristic tags and its pattern names as tags.
C15_ProfileOfBatch ==
    (EvaluateReturned /\ call.arg # <<>>) =>
        LET profile == result.value
            order == FirstOccurrences(BatchKeys(call.arg))
        IN  /\ profile.row_count = Len(call.arg)
            /\ profile.column_count = Cardinality(Range(BatchKeys(call.arg)))
            /\ profile.column_count = Len(profile.columns)
            /\ [i \in 1..Len(profile.columns) |-> profile.columns[i].name] = order
            /\ profile.schema_fingerprint = fingerprint(order)
            /\ \A i \in 1..Len(profile.columns) :
                   TagsAreSortedUnion(call.arg, profile.columns[i])

\* evaluate returned on two records that name zip_code before order_id: the
\* columns keep that order, and the tags of zip_code hold a heuristic tag and
\* the pattern zip_code
C15_Witness ==
    /\ EvaluateReturned
    /\ Len(call.arg) = 2
    /\ Len(result.value.columns) = 2
    /\ result.value.columns[1].name = s_zip_code
    /\ result.value.columns[2].name = s_order_id
    /\ s_zip_code \in Range(result.value.columns[1].meta.patterns)
    /\ {s_zip_code, s_high_uniqueness} \subseteq Range(result.value.columns[1].meta.tags)

ManagerCalled == call.fn = "FeatureManager.evaluate" /\ result.done

ApplyDone == call.fn = "apply" /\ result.done
ApplyReturned == ApplyDone /\ result.value.raised = ""

\* the record apply returned
Enriched == call.heap[result.value.ref]

\* C17: after apply of any of the five strategies the record passed has the
\* keys and values it had, and the record returned is another object.
C17_InputUnchanged ==
    ApplyDone =>
        /\ call.arg # NoneRef => call.heap[call.arg] = call.given
        /\ result.value.raised = "" =>
               /\ result.value.ref # call.arg
               /\ result.value.ref \in 1..Len(call.heap)

\* the geo strategy returned a record with latitude and _strategy and without
\* lat for a record that has lat and still has it, without those two keys
C17_Witness ==
    /\ ApplyReturned
    /\ call.strategy.class = "GeoStrategy"
    /\ call.arg # NoneRef
    /\ dict_has(call.given, s_lat)
    /\ dict_has(call.heap[call.arg], s_lat)
    /\ ~dict_has(call.heap[call.arg], s_latitude)
    /\ ~dict_has(call.heap[call.arg], s__strategy)
    /\ dict_has(Enriched, s_latitude)
    /\ dict_has(Enriched, s__strategy)
    /\ ~dict_has(Enriched, s_lat)

GeoReturned == ApplyReturned /\ call.strategy.class = "GeoStrategy"

\* the values a record holds under the given keys that float() accepts
ParsableUnder(record, keys) ==
    {value \in {dict_get(record, key) : key \in {k \in keys : dict_has(record, k)}} :
        to_float(value).raised = ""}

\* C20: when the record holds a numeric-parsable value under latitude or lat
\* and one under longitude or lon, the geo strategy returns those numbers as
\* latitude and longitude, has_valid_coordinates true and the centroid pair;
\* otherwise has_valid_coordinates false and centroid None; the returned
\* record never has the keys lat and lon.
C20_GeoCoordinates ==
    GeoReturned =>
        LET latitudes == ParsableUnder(call.given, {s_latitude, s_lat})
            longitudes == ParsableUnder(call.given, {s_longitude, s_lon})
        IN  /\ ~dict_has(Enriched, s_lat)
            /\ ~dict_has(Enriched, s_lon)
            /\ IF latitudes # {} /\ longitudes # {}
               THEN /\ dict_get(Enriched, s_latitude)
                           \in {DoubleV(to_float(value).value) : value \in latitudes}
                    /\ dict_get(Enriched, s_longitude)
                           \in {DoubleV(to_float(value).value) : value \in longitudes}
                    /\ dict_get(Enriched, s_has_valid_coordinates) = BoolV(1)
                    /\ dict_get(Enriched, s_centroid)
                           = TupleV(dict_get(Enriched, s_latitude),
                                    dict_get(Enriched, s_longitude))
               ELSE /\ dict_get(Enriched, s_has_valid_coordinates) = BoolV(0)
                    /\ dict_get(Enriched, s_centroid) = NoneV

(* ------------------------ claims on the pipeline --------------------- *)
RunExported == call.fn = "run" /\ call.pc = "exported"

\* the records a run started from that its filter kept, as references
Survivors ==
    IF \E i \in 1..Len(call.drop_mask) : call.drop_mask[i]
    THEN SelectSeq([i \in 1..Len(call.given) |-> i], LAMBDA i : ~call.drop_mask[i])
    ELSE [i \in 1..Len(call.given) |-> i]

\* C18: the records run hands to the ontology formatter are the records the
\* strategy returned, one for each kept record, each carrying the marker
\* _strategy with the name of the routed strategy; they are not the records
\* as they were before the strategy was applied.
C18_ExportsEnriched ==
    RunExported =>
        /\ call.formatted = call.enriched_records
        /\ \A i \in 1..Len(call.formatted) :
               /\ dict_has(call.heap[call.formatted[i]], s__strategy)
               /\ dict_get(call.heap[call.formatted[i]], s__strategy) = StrV(call.strategy.name)

\* C19: in a run the steps come in the order filter, profile, route, apply;
\* the mask is the classifier's, fitted on the batch; the profile is the
\* profile of the surviving records only; there is one routing decision, the
\* router's for that profile; and the strategy is applied to every surviving
\* record, in order, and to no other.
C19_StepsInOrder ==
    call.fn = "run" =>
        /\ call.steps = SubSeq(PipelineSteps, 1, Len(call.steps))
        /\ call.pc # "loaded" /\ call.given # <<>> =>
               call.drop_mask = predict_drop(clf, call.given, FALSE, clf.booster).value
        /\ call.pc \in {"profiled", "routed", "raised", "applied", "exported"} =>
               /\ call.records = Survivors
               /\ call.features = evaluate(rows_of(call.given, Survivors))
        /\ call.pc \in {"loaded", "filtered", "profiled"} =>
               call.resolved = 0 /\ call.enriched_records = <<>>
        /\ call.pc \in {"routed", "raised", "applied", "exported"} =>
               call.resolved = 1 /\ call.strategy = resolve(call.features)
        /\ call.pc \in {"applied", "exported"} =>
               /\ Len(call.enriched_records) = Len(Survivors)
               /\ \A i \in 1..Len(Survivors) :
                      With(clean_record(call.given, Survivors[i]), LAMBDA copy :
                          call.heap[call.enriched_records[i]] =
                              enrich(call.strategy, copy.heap[copy.ref], call.seed).row)

C19_Witness ==
    /\ RunExported
    /\ \E i \in 1..Len(call.drop_mask) : call.drop_mask[i]
    /\ Len(call.enriched_records) > 0
    /\ Len(call.enriched_records) < Len(call.given)

FinancialReturned == ApplyReturned /\ call.strategy.class = "FinancialStrategy"

\* a column name that contains one of the finance tokens
HasFinanceToken(key) == \E token \in FINANCE_TOKENS : Contains(key, token)

\* float() of a cleaned value once "," and "$" are taken out of a str
ParsedAmount(value) ==
    to_float(IF value.t = "str" THEN StrV(without_characters(value.s, {44, 36})) ELSE value)

\* a value that is a number or a str that parses as one
IsAmount(value) ==
    /\ value.t \in {"int", "float", "bool", "hundredths", "str"}
    /\ ParsedAmount(value).raised = ""

\* the positions of a record that hold an amount under a finance column
Amounts(record) ==
    {i \in 1..Len(record) :
        HasFinanceToken(record[i].k) /\ IsAmount(clean_value(record[i].v))}

\* the sum of the amounts of a record, added in the order of the columns
SumOfAmounts(record) ==
    LET upto[n \in 0..Len(record)] ==
            IF n = 0 THEN Finite(FloatZero)
            ELSE IF n \in Amounts(record)
            THEN float_add(upto[n - 1], ParsedAmount(clean_value(record[n].v)).value)
            ELSE upto[n - 1]
    IN  upto[Len(record)]

DemographicDone == ApplyDone /\ call.strategy.class = "DemographicStrategy"

\* the number DemographicStrategy reads from a cleaned value, if it is one
ParsedCount(value) ==
    to_float(IF value.t \in {"int", "float", "bool", "hundredths", "bigint"} THEN value
             ELSE StrV(without_characters(str_of(value), {44})))

IsCount(value) == value.t # "none" /\ ParsedCount(value).raised = ""

\* population / operand when both are numbers and the operand is not zero
RatioOf(population, operand) ==
    IF /\ IsCount(population) /\ IsCount(operand)
       /\ ~IsZero(ParsedCount(operand).value)
    THEN DoubleV(float_div(ParsedCount(population).value, ParsedCount(operand).value))
    ELSE NoneV

\* the area of a cleaned record: the first of the three area columns that
\* holds a value
AreaOf(cleaned) ==
    py_or(py_or(dict_get(cleaned, s_area_sq_miles), dict_get(cleaned, s_area_sq_km)),
          dict_get(cleaned, s_land_area))

\* C22: the demographic strategy never raises; population_density is
\* population / area and average_household_size is population / households
\* when both operands are numbers and the divisor is not zero, None otherwise.
C22_DemographicNeverRaises ==
    DemographicDone =>
        /\ result.value.raised = ""
        /\ With(cleaned_items(call.given), LAMBDA cleaned :
               /\ dict_get(Enriched, s_population_density) =
                      RatioOf(dict_get(cleaned, s_population), AreaOf(cleaned))
               /\ dict_get(Enriched, s_average_household_size) =
                      RatioOf(dict_get(cleaned, s_population), dict_get(cleaned, s_households)))

(* ---------------------- claims on the decision regime ---------------- *)
FitReturned == ret.op = "fit"

\* the pseudo-label of a record, by the six comparisons
LabelledDrop(record) ==
    With(compute_features(record), LAMBDA row :
        \/ row.null_ratio > Hundredths(45)
        \/ row.empty_text_ratio > Hundredths(35)
        \/ (row.null_ratio > Hundredths(25) /\ row.short_text_ratio > Hundredths(20))
        \/ row.numeric_zero_ratio > Hundredths(50)
        \/ row.essential_missing_ratio > Hundredths(40)
        \/ (row.essential_missing_ratio > Hundredths(25) /\ row.null_ratio > Hundredths(20)))

BothLabels(records) ==
    /\ \E i \in 1..Len(records) : LabelledDrop(records[i])
    /\ \E i \in 1..Len(records) : ~LabelledDrop(records[i])

\* C23: after fit on a non-empty batch the classifier is in the trained mode
\* and holds an ensemble when the batch has a record labelled drop and one
\* labelled keep, and is in the heuristic mode without an ensemble otherwise.
C23_RegimeFromLabels ==
    FitReturned /\ ret.arg # <<>> =>
        IF BothLabels(ret.arg)
        THEN clf.model_type = "xgboost" /\ clf.booster \in Boosters
        ELSE clf.model_type = "heuristic" /\ clf.booster = NoBooster

C23_Witness ==
    /\ FitReturned
    /\ ret.arg \in ShapedBatches
    /\ BothLabels(ret.arg)
    /\ clf.model_type = "xgboost"

(* -------------------- claims on feature extraction ------------------- *)
FeaturesReturned == call.fn = "compute_features" /\ result.done

\* the fields of the record that was passed: none for None
FieldsGiven == IF call.arg = NoRecord THEN <<>> ELSE call.arg

AllWhitespace(text) == \A i \in 1..Len(text) : text[i] \in Whitespace

\* the length of the text between its first and its last non-whitespace character
CoreLength(text) ==
    LET solid == {i \in 1..Len(text) : text[i] \notin Whitespace}
    IN  IF solid = {} THEN 0
        ELSE (CHOOSE i \in solid : \A j \in solid : j <= i)
                 - (CHOOSE i \in solid : \A j \in solid : j >= i) + 1

IsNullLike(value) ==
    value.t \in {"none", "nan"} \/ (value.t = "str" /\ AllWhitespace(value.s))
IsEmptyText(value) == value.t = "str" /\ AllWhitespace(value.s)
IsShortText(value) == value.t = "str" /\ CoreLength(value.s) \in 1..2
IsNumericZero(value) ==
    value.t \in {"int", "float", "bool", "hundredths"} /\ value.n = 0

CountFields(row, Test(_)) == Cardinality({i \in 1..Len(row) : Test(row[i].v)})

\* the essential field names that are absent, None, NaN or blank
EssentialsMissing(row) ==
    {name \in ESSENTIAL_FIELDS :
        \A i \in 1..Len(row) : row[i].k = name => IsNullLike(row[i].v)}

FieldCount(row) == IF Len(row) = 0 THEN 1 ELSE Len(row)

\* C24: for every record (None, empty, holding None, NaN, booleans, strings or
\* nested values) feature extraction returns five features in [0,1]: the first
\* four are counts over the record's field count (1 for an empty record), and
\* essential_missing_ratio is the number of the 16 essential names that are
\* absent, None, NaN or blank, over 16.
C24_FeaturesAreRatios ==
    FeaturesReturned =>
        /\ DOMAIN result.value = Range(FEATURE_KEYS)
        /\ \A key \in Range(FEATURE_KEYS) : result.value[key] \in 0..Unit
        /\ result.value.null_ratio =
               (CountFields(FieldsGiven, IsNullLike) * Unit) \div FieldCount(FieldsGiven)
        /\ result.value.empty_text_ratio =
               (CountFields(FieldsGiven, IsEmptyText) * Unit) \div FieldCount(FieldsGiven)
        /\ result.value.numeric_zero_ratio =
               (CountFields(FieldsGiven, IsNumericZero) * Unit) \div FieldCount(FieldsGiven)
        /\ result.value.short_text_ratio =
               (CountFields(FieldsGiven, IsShortText) * Unit) \div FieldCount(FieldsGiven)
        /\ result.value.essential_missing_ratio =
               (Cardinality(EssentialsMissing(FieldsGiven)) * Unit) \div 16

\* features of a record {"city": float('nan'), "name": " a\t"}: one null-like
\* field, one short text, all sixteen essentials missing
C24_Witness ==
    /\ FeaturesReturned
    /\ Len(FieldsGiven) = 2
    /\ FieldsGiven[1].v = NaNV
    /\ FieldsGiven[2].v = StrV(s_padded_a)
    /\ result.value.null_ratio = Hundredths(50)
    /\ result.value.short_text_ratio = Hundredths(50)
    /\ result.value.essential_missing_ratio = Unit

\* features of None: the field count is taken as 1
C24_NoneWitness ==
    /\ FeaturesReturned
    /\ call.arg = NoRecord
    /\ result.value.null_ratio = 0
    /\ result.value.essential_missing_ratio = Unit

(* ------------------- claims on concurrent calls ---------------------- *)
ThreadsRunning == call.fn = "threads"
SameInstance == call.threads[1].on = call.threads[2].on

\* the other thread
Other(t) == 3 - t

\* what the instance thread t was called on can be once one fit, alone, has
\* run on it from its state at the start
FittedAlone(on, records) == {fit(call.init[on], records, trained) : trained \in Boosters}

\* the states of its instance that thread t's prediction could see if the
\* other thread's call ran wholly before it or wholly after it
AtomicStates(t) ==
    {call.init[call.threads[t].on]}
        \cup (IF call.threads[Other(t)].op = "fit"
              THEN FittedAlone(call.threads[t].on, call.threads[Other(t)].records)
              ELSE {})

\* thread t's predict_proba has returned what no state before or after the
\* other thread's call gives, or has raised
Torn(t) ==
    /\ call.threads[t].op = "predict_proba"
    /\ call.threads[t].pc = "returned"
    /\ \/ call.threads[t].raised # "none"
       \/ \A self \in AtomicStates(t) :
              call.threads[t].value # predict_proba(self, call.threads[t].records)

\* thread t's fit has returned and left what no fit alone leaves
Mixed(t) ==
    /\ call.threads[t].op = "fit"
    /\ call.threads[t].pc = "returned"
    /\ call.threads[Other(t)].pc = "returned"
    /\ call.objs[call.threads[t].on] \notin
           FittedAlone(call.threads[t].on, call.threads[t].records)
               \cup (IF call.threads[Other(t)].op = "fit"
                     THEN FittedAlone(call.threads[t].on, call.threads[Other(t)].records)
                     ELSE {})

\* each instance is what the one call made on it, alone, makes of it
Isolated ==
    \A t \in 1..2 :
        LET thread == call.threads[t]
        IN  /\ thread.pc = "called" => call.objs[thread.on] = call.init[thread.on]
            /\ thread.op = "predict_proba" => call.objs[thread.on] = call.init[thread.on]
            /\ (thread.op = "fit" /\ thread.pc = "returned")
                   => call.objs[thread.on] \in FittedAlone(thread.on, thread.records)
            /\ (thread.op = "predict_proba" /\ thread.pc = "returned")
                   => /\ thread.raised = "none"
                      /\ thread.value = predict_proba(call.init[thread.on], thread.records)

\* C25: a prediction computed from a state of the instance that is neither the
\* one before the concurrent fit nor the one after it, and a learned state that
\* no single fit leaves, occur only when the two calls are on the same
\* instance; calls on two distinct instances leave each instance as the call
\* made on it alone would, under every interleaving.
C25_TornOnlyOnSharedInstance ==
    ThreadsRunning =>
        /\ \A t \in 1..2 : (Torn(t) \/ Mixed(t)) => SameInstance
        /\ ~SameInstance => Isolated

\* a prediction has been returned from feature_means and feature_scales that
\* the concurrent fit on the same instance had emptied or partly refilled
C25_Witness ==
    /\ ThreadsRunning
    /\ SameInstance
    /\ Torn(2)
    /\ call.threads[2].raised = "none"
    /\ call.threads[1].pc \notin {"called", "returned"}

\* the booster was there when predict_proba tested it and gone when it was used
C25_RaisedWitness ==
    /\ ThreadsRunning
    /\ SameInstance
    /\ call.threads[2].raised = "AttributeError"

\* two fits on one instance have left statistics of both batches
C25_MixedWitness == ThreadsRunning /\ SameInstance /\ Mixed(1) /\ Mixed(2)

\* calls on two instances have both returned
C25_ApartWitness ==
    /\ ThreadsRunning
    /\ ~SameInstance
    /\ \A t \in 1..2 : call.threads[t].pc = "returned"
    /\ call.threads[2].op = "fit"
    /\ call.objs[2] # call.init[2]

(* ---------------------- claims on a whole session -------------------- *)
\* C26: in every state reached by construction and any sequence of fit, load,
\* save, predict_proba, predict_drop and filter_records, the classifier holds
\* an ensemble iff its model_type is "xgboost".
C26_BoosterIffTrained ==
    call.fn = "none" => (clf.booster # NoBooster <=> clf.model_type = "xgboost")

\* a fit on a batch of one label has just replaced a trained classifier that
\* was loaded from disk
C26_Witness ==
    /\ call.fn = "none"
    /\ ret.op = "fit"
    /\ ret.arg = <<SparseRecord>>
    /\ clf.model_type = "heuristic"
    /\ clf.booster = NoBooster
    /\ disk # <<>>
    /\ disk[1].model_type = "xgboost"
    /\ disk[1].booster # NullBlob

\* a payload that declares the trained type without a booster has been loaded
C26_LoadWitness ==
    /\ call.fn = "none"
    /\ ret.op = "load"
    /\ ~ret.raised
    /\ ret.arg.model_type = "xgboost"
    /\ "booster" \notin DOMAIN ret.arg
    /\ clf.model_type = "heuristic"

\* the learned state and the threshold
StateOf(self) ==
    <<self.threshold, self.feature_means, self.feature_scales, self.model_type, self.booster>>

\* a call has just returned to the caller
Returns(ops) == ret.op = "none" /\ ret'.op \in ops

\* what fit on `records` leaves of a classifier constructed with this threshold
FreshlyFitted(threshold, records) ==
    {StateOf(fit(NewClassifier(threshold), records, trained)) : trained \in Boosters}

\* C27: predict_proba, save, and predict_drop/filter_records with auto_fit=False
\* leave threshold, feature_means, feature_scales, model_type and booster
\* unchanged; predict_drop/filter_records with auto_fit=True leave the state a
\* fit on the very records predicted leaves, whatever was fitted or loaded
\* before; only construction and load change threshold.
C27_FrameEffects ==
    [][ /\ Returns({"predict_proba", "save"}) => StateOf(clf') = StateOf(clf)
        /\ (Returns({"predict_drop", "filter_records"}) /\ ~ret'.auto_fit)
               => StateOf(clf') = StateOf(clf)
        /\ (Returns({"predict_drop", "filter_records"}) /\ ret'.auto_fit)
               => StateOf(clf') \in FreshlyFitted(clf.threshold, ret'.arg)
        /\ ~Returns({"construct", "load"}) => clf'.threshold = clf.threshold
      ]_vars

\* predict_drop with auto_fit=True has returned on a classifier that held an
\* ensemble: the ensemble is gone, refitted on the one record predicted
C27_Witness ==
    /\ call.fn = "none"
    /\ ret.op = "predict_drop"
    /\ ret.auto_fit
    /\ ret.arg = <<SparseRecord>>
    /\ clf.model_type = "heuristic"
    /\ clf.threshold = Hundredths(50)
    /\ disk # <<>>
    /\ disk[1].model_type = "xgboost"

\* filter_records with auto_fit=False has returned on a trained classifier
C27_KeptWitness ==
    /\ call.fn = "none"
    /\ ret.op = "filter_records"
    /\ ~ret.auto_fit
    /\ ret.arg # <<>>
    /\ clf.model_type = "xgboost"

(* ------------------------ claims on refitting ------------------------ *)
\* feature_means, feature_scales and model_type
LearnedOf(self) == <<self.feature_means, self.feature_scales, self.model_type>>

\* the records of the batch all have the same value of the feature, so that
\* its variance over the batch is zero
SameRatio(records, key) ==
    \A i, j \in 1..Len(records) :
        feature_counts(records[i])[key][1] * feature_counts(records[j])[key][2]
            = feature_counts(records[j])[key][1] * feature_counts(records[i])[key][2]

\* C28: after fit(B), feature_means, feature_scales and model_type are what fit
\* leaves on a fresh instance, whatever the instance held before; all five
\* keys have a strictly positive scale, the default one when the variance of
\* the feature over the batch is zero; and in heuristic mode the decisions on
\* B are those of a fresh instance fitted on B.
C28_FitOverwrites ==
    (call.fn = "none" /\ FitReturned) =>
        /\ \E trained \in Boosters :
               LearnedOf(clf) =
                   LearnedOf(fit(NewClassifier(DEFAULT_THRESHOLD), ret.arg, trained))
        /\ DOMAIN clf.feature_means = Range(FEATURE_KEYS)
        /\ DOMAIN clf.feature_scales = Range(FEATURE_KEYS)
        /\ \A key \in Range(FEATURE_KEYS) :
               /\ clf.feature_scales[key] > 0
               /\ SameRatio(ret.arg, key) => clf.feature_scales[key] = DEFAULT_SCALES[key]

\* the part of C28 on the state before: the learned state after fit(B) is that
\* of a fresh instance fitted on B, and every scale is strictly positive
C28_FitForgets ==
    (call.fn = "none" /\ FitReturned) =>
        /\ \E trained \in Boosters :
               LearnedOf(clf) =
                   LearnedOf(fit(NewClassifier(DEFAULT_THRESHOLD), ret.arg, trained))
        /\ DOMAIN clf.feature_scales = Range(FEATURE_KEYS)
        /\ \A key \in Range(FEATURE_KEYS) : clf.feature_scales[key] > 0
        /\ clf.model_type = "heuristic" =>
               predict_drop(clf, ret.arg, FALSE, NoBooster).value
                   = predict_drop(NewClassifier(clf.threshold), ret.arg, TRUE, NoBooster).value

\* a trained instance was saved, and the instance has since been fitted on
\* three equal rows: it is in heuristic mode with the statistics of those rows
C28_ForgetsWitness ==
    /\ call.fn = "none"
    /\ FitReturned
    /\ ret.arg = Repeat(AcmeRecord, 3)
    /\ clf.model_type = "heuristic"
    /\ clf.feature_scales = DEFAULT_SCALES
    /\ disk # <<>>
    /\ disk[1].model_type = "xgboost"

\* three equal rows with one field of five missing: the scale of null_ratio is
\* neither zero nor the default
C28_TinyScale ==
    /\ call.fn = "none"
    /\ FitReturned
    /\ ret.arg = Repeat(PartRecord, 3)
    /\ clf.feature_scales.null_ratio = TinyScale

(* ---------------- claims on missing essential fields ----------------- *)
\* the essential field names under which the record carries a value
PopulatedEssentials(record) ==
    {name \in ESSENTIAL_FIELDS :
        \E i \in 1..Len(record) : record[i].k = name /\ ~IsNullLike(record[i].v)}

FewEssentials(record) == Cardinality(PopulatedEssentials(record)) <= 9

\* C29: a record with at most 9 of the 16 essential names populated has
\* essential_missing_ratio > 0.4 and is pseudo-labelled drop whatever its other
\* fields; a batch of such records alone leaves fit in heuristic mode, without
\* an ensemble.
C29_FewEssentialsStayHeuristic ==
    (call.fn = "none" /\ FitReturned) =>
        /\ \A i \in 1..Len(ret.arg) :
               FewEssentials(ret.arg[i]) =>
                   /\ compute_features(ret.arg[i]).essential_missing_ratio > Hundredths(40)
                   /\ pseudo_labels(<<compute_features(ret.arg[i])>>) = <<1>>
        /\ (\A i \in 1..Len(ret.arg) : FewEssentials(ret.arg[i]))
               => (clf.model_type = "heuristic" /\ clf.booster = NoBooster)

\* fit has returned on two records with nine populated essentials, one of
\* which has every other comparison of _pseudo_labels on the keep side
C29_Witness ==
    /\ call.fn = "none"
    /\ FitReturned
    /\ ret.arg = <<EssentialRecord(9, 7, 20), EssentialRecord(9, 0, 20)>>
    /\ compute_features(ret.arg[1]).null_ratio < Hundredths(20)
    /\ clf.model_type = "heuristic"

\* with a tenth populated essential the record is kept and an ensemble trained
C29_TenWitness ==
    /\ call.fn = "none"
    /\ FitReturned
    /\ ret.arg = <<EssentialRecord(10, 6, 20), EssentialRecord(9, 7, 20)>>
    /\ clf.model_type = "xgboost"

(* ----------------------- claims on total_count ----------------------- *)

\* the records of the batch that have the key
Holders(column) ==
    {r \in 1..Len(call.arg) : \E j \in 1..Len(call.arg[r]) : call.arg[r][j].k = column}

\* the records of the batch that hold None or NaN under the key
NullHolders(column) ==
    {r \in 1..Len(call.arg) :
        \E j \in 1..Len(call.arg[r]) :
            call.arg[r][j].k = column /\ call.arg[r][j].v.t \in {"none", "nan"}}

\* C30: in every profile evaluate returns, a column's total_count is the number
\* of records that have the column's key: at most row_count, and row_count iff
\* every record has the key; a record without the key counts neither in
\* total_count nor in null_ratio.
C30_TotalCountsHolders ==
    EvaluateReturned =>
        /\ result.value.row_count = Len(call.arg)
        /\ \A i \in 1..Len(result.value.columns) :
               LET column == result.value.columns[i].name
                   summary == result.value.columns[i].meta.summary
               IN  /\ summary.total_count = FloatOfInt(Cardinality(Holders(column)))
                   /\ Cardinality(Holders(column)) \in 1..result.value.row_count
                   /\ (summary.total_count = FloatOfInt(result.value.row_count))
                          <=> (Holders(column) = 1..Len(call.arg))
                   /\ summary.null_ratio =
                          FloatDiv(Cardinality(NullHolders(column)),
                                   Cardinality(Holders(column)))

\* a profile of two records, one of which lacks a column of the other: the
\* column's total_count is 1 and its null_ratio 0
C30_Witness ==
    /\ EvaluateReturned
    /\ result.value.row_count = 2
    /\ \E i \in 1..Len(result.value.columns) :
           /\ result.value.columns[i].meta.summary.total_count = FloatOfInt(1)
           /\ result.value.columns[i].meta.summary.null_ratio = FloatZero
           /\ Cardinality(Holders(result.value.columns[i].name)) = 1

====
